---------------------------- MODULE Spec2Model ----------------------------
(***************************************************************************)
(* A model of rerpc (kawaiirei0/rerpc): the connection pool (ConnPool),    *)
(* the worker pool (GoroutinePool), the server's accept loop, connection   *)
(* handlers and shutdown, and the client's call path over pooled           *)
(* connections.  Every goroutine is a process with a program counter; one  *)
(* action is one atomic step of the Go code (an atomic load or store, one  *)
(* channel operation, one select).                                         *)
(***************************************************************************)
EXTENDS Integers, Sequences, FiniteSets, TLC

(***************************************************************************)
(* Bounds of the model.                                                    *)
(***************************************************************************)
\* goroutines that lease connections (Get, then Put) concurrently
NumUsers == 2

\* workers of the GoroutinePool
NumWorkers == 1
\* goroutines that call GoroutinePool.Close concurrently
NumClosers == 2
\* tasks that are ever handed to Submit
MaxTasks == 4
\* the requests written on one connection and not yet answered, at most
MaxUnread == 2
\* the goroutines of abandoned calls reading one connection, at most
MaxOrphans == 1
\* operations of the Client are invoked while Client.seq is below this
MaxSeq == 1
\* Client.maxRetries
MaxRetriesBound == 2
\* the dials, writes and reads of the Client that fail, at most
MaxFaults == 1
MaxCalls == 3
MaxNameLen == 3
MaxBatch == 2

\* goroutines that register services concurrently, and the calls of each
NumRegistrars == 2
MaxRegs == 1

\* the leasing goroutines, the goroutine of StartCleaner (it runs
\* CleanIdleConns on every tick) and the goroutine that calls Close
Users == 1..NumUsers
Cleaner == NumUsers + 1
Closer == NumUsers + 2
Procs == 1..(NumUsers + 2)
NoRet == <<0, "none">>

Workers == 1..NumWorkers
Closers == 1..NumClosers
\* the goroutine that calls Submit (for the server: the accept loop)
Submitters == {1}
\* no task: a worker that runs nothing, a submitter that submits nothing
NoTask == 0
\* the connections clients can open to the server; the handler of
\* connection c is task c of the worker pool
SConns == {1, 2}
\* the goroutines that call Server.Shutdown or Server.Close, each of them
\* once; stopper k runs the worker pool's Close as closer k
Stoppers == Closers
\* the connections that can be open at one time (the server end accepts
\* two); the identity of a closed connection is used again by a later dial
Conns == {1, 2}
\* the nil net.Conn (the zero value a closed, drained channel delivers)
NilConn == 0
\* the goroutines that invoke Call, Go, Batch and Ping on one Client, and
\* the goroutines that invoke Client.Close, each of them once
Callers == {1, 2}
XClosers == {3}
\* the callers that use Call and Batch, and those that use Go and Ping
CallIssuers == {1}
BatchIssuers == {1}
GoIssuers == {2}
PingIssuers == {2}
\* Client.retryDelay in milliseconds (the default of NewClient)
retryDelay == 100

VARIABLES
    \* ---- ConnPool (part_004: 881-908) ----
    maxIdle,     \* ConnPool.maxIdle   = cap(idleConns)
    maxActive,   \* ConnPool.maxActive (0 = unlimited)
    testOnGet,   \* ConnPool.testOnGet
    idleConns,   \* buffer of the channel idleConns, a sequence of connections
    idleClosed,  \* whether close(p.idleConns) has run
    activeNum,   \* ConnPool.activeNum
    closed,      \* ConnPool.closed (0 or 1)
    mu,          \* ConnPool.mu: 0 when free, else the process holding it
    connSt,      \* per connection: "open", or "closed" (not dialed, or destroyed)
    \* ---- goroutines calling the pool ----
    pc,          \* per process: where it is inside Get / Put / Close / CleanIdleConns
    cur,         \* per process: the local variable conn of the running operation
    held,        \* per process: the connection Get returned and that was not yet given to Put
    cleanN,      \* CleanIdleConns' idleCount
    cleanI,      \* CleanIdleConns' loop index i
    \* ---- last step ----
    ret,         \* <<p, outcome>> when the last step was the return of an operation of p, else NoRet
    \* ---- GoroutinePool (part_005: 14-20) ----
    gpClosed,    \* GoroutinePool.closed (0 or 1)
    taskQueue,   \* buffer of the channel taskQueue, a sequence of tasks
    queueClosed, \* whether close(p.taskQueue) has run
    wpc,         \* per worker: "recv" (at the range receive), "run", "exited" (wg.Done ran)
    wtask,       \* per worker: the task it runs
    tpc,         \* per worker: the position inside the task it runs
    spc,         \* per submitter: where it is inside Submit
    stask,       \* per submitter: the task it submits
    cpc,         \* per closer: where it is inside Close
    nextTask,    \* the next task a submitter creates
    sAfter,      \* per submitter: its running Submit began when closed was already 1
    executed,    \* the tasks a worker has begun to execute
    panicked,    \* the tasks whose execution ended in a panic
    rejected,    \* the tasks whose Submit returned ErrPoolClosed
    \* ---- Server (part_004: 21-29) and the clients' ends of its connections ----
    sShutdown,   \* Server.shutdown (0 or 1)
    sListener,   \* Server.listener: "nil" or "set"
    lsn,         \* the listener Serve creates: "none", "open", "closed"
    swg,         \* the counter of Server.wg
    vpc,         \* where the goroutine that called Serve is
    vconn,       \* Serve's local variable conn
    cst,         \* per connection: "none", "backlog" (dialed, not accepted), "accepted", "closed"
    creq,        \* per connection, the client's end: "none", "sent" (a request is written), "taken" (read by the handler), "answered"
    kpc,         \* per stopper (a goroutine calling Shutdown or Close once): where it is
    kctx,        \* per stopper: the ctx given to Shutdown: "none", "pending" (not expired), "expired"
    kwait,       \* per stopper: Shutdown's goroutine s.wg.Wait(); close(done): "none", "waiting", "closed"
    hAtShutdown, \* the connections whose handler was in flight when Shutdown set the flag and has not finished
    rAtShutdown, \* the connections whose request was being processed when Shutdown set the flag
    \* ---- Client (part_007: 148-328): calls over the ConnPool ----
    cphase,      \* per caller, inside doCall: "none" (no connection yet), "wait" (request written, in the select), "ret" (doCall returns, the deferred Put runs)
    bg,          \* per caller: the connection the goroutine of its current call reads in receiveResponse, or NilConn
    respChan,    \* per caller: what that goroutine has sent to respChan: "none", "ok", "err"
    orphans,     \* per connection: the receiveResponse goroutines of abandoned calls that still read it
    unread,      \* per connection: the requests written on it whose response nobody has read
    bad,         \* per connection: a write or a read on it has failed
    \* ---- Client (part_007: 44-55), Call, Go, Batch, Close ----
    cClosed,     \* Client.closed
    seq,         \* Client.seq
    pending,     \* Client.pending: pairs <<seq, caller whose Call record it maps to>>
    maxRetries,  \* Client.maxRetries
    apc,         \* per caller: where its operation stands
    kind,        \* per caller: "Call", "Go", "GoWithContext", "Batch", "EmptyBatch" or "Ping"
    attempt,     \* per caller: Call's loop variable attempt
    aseq,        \* per caller: call.seq of the record Call created
    aerr,        \* per caller: err of doCall (lastErr), then what Call returned
    gotErr,      \* per caller: the error of the last ConnPool.Get
    ctxSt,       \* per caller: its ctx: "live", "canceled", "deadline"
    callErr,     \* per caller: call.Error of the record Call created
    callDone,    \* per caller: what is buffered in that record's Done
    heldErr,     \* per caller: Error of the record the issuer of Go or Batch holds
    heldDone,    \* per caller: what is buffered in that record's Done
    delay,       \* per caller: Call's local delay
    tries,       \* per caller: the calls of doCall in this invocation
    did,         \* per caller: what this invocation has done: "seq", "pending", "lease", "write"
    late,        \* per caller: this invocation began after a Close had returned
    preDone,     \* per caller: its ctx was done when the invocation began
    xpc,         \* per caller of Client.Close: where it stands
    faults,      \* the dials, writes and reads of the Client that have failed
    cret,        \* <<caller, error>> when a step returns from Call, Batch, Ping or Close, else NoCRet
    \* ---- one Call each on the wire (part_007: 213-328, part_004: 126-217) ----
    eSeq,        \* Client.seq
    ePc,         \* per caller: "idle" or "wait" (in doCall's select)
    eId,         \* per caller: call.seq of its Call
    eConn,       \* per caller: the connection doCall holds
    eCtx,        \* per caller: its ctx is done
    eArgs,       \* per call: call.Args
    eSink,       \* per call: what call.Reply holds, 0 while untouched
    eHandled,    \* per call: how often the handler has run for its request
    eReq,        \* per connection: the requests on their way to the server
    eStream,     \* per connection: the bytes of the responses on their way to the client
    eFree,       \* the connections the pool can hand out
    eRd,         \* per call: its receiveResponse goroutine: "none", "reading", "done"
    eRdConn,     \* per call: the connection that goroutine reads
    eBuf,        \* per call: what its bufio.Reader holds
    eRes,        \* per call: what respChan holds: "none", "ok", "err"
    eRet,        \* <<call, outcome>> when a step returns from Call, else NoRet
    \* ---- messages (part_001: 77-176, part_004: 182-287, registry.go: 179-246) ----
    hQueue,      \* the request lines a connection's client has sent and handleConn has not read
    hLine,       \* the lines handleConn has read, in order
    hOut,        \* the responses handleConn has written, in order
    hCalls,      \* how often the handler has run for each line read
    hLoop,       \* handleConn's loop is running
    gIn,         \* the service name, method name, params and handler behaviour of a ServiceRegistry.Call
    gOut,        \* what that Call returned
    rLine,       \* the response line a client has read
    rDec,        \* what DecodeResponse returned for it
    \* ---- Client.Batch (part_007: 473-512) ----
    bpc,         \* Batch: "idle", "wait" (in wg.Wait) or "returned"
    bN,          \* the number of calls of the batch
    bgo,         \* per call, its goroutine: "none", "started", "called", "done"
    bOut,        \* per call, what its Client.Call returned, NotRun before
    bErr,        \* per call, the Error field of its Call record
    errChan,     \* the errors sent on errChan, in order
    wg,          \* the WaitGroup's counter
    bRet,        \* what Batch returned, NoBatchRet before
    \* ---- ServiceRegistry (registry.go: 46-115) ----
    services,    \* r.services: service name -> names of its cached methods
    regMu,       \* the goroutine that holds r.mu, 0 for none
    regpc,       \* position of each registering goroutine
    regIn,       \* the arguments of its call of register
    regSname,    \* its local sname once the name checks have passed
    regCalls,    \* the calls of register it has made
    regLog       \* history: the calls of register that have returned

poolVars == <<maxIdle, maxActive, testOnGet, idleConns, idleClosed, activeNum,
              closed, mu, connSt, pc, cur, held, cleanN, cleanI>>

\* the pool's configuration, fixed by NewConnPool
cfgVars == <<maxIdle, maxActive, testOnGet>>

gpVars == <<gpClosed, taskQueue, queueClosed, wpc, wtask, tpc, spc, stask, cpc,
            nextTask, sAfter, executed, panicked, rejected>>

srvVars == <<sShutdown, sListener, lsn, swg, vpc, vconn, cst, creq, kpc, kctx,
             kwait, hAtShutdown, rAtShutdown>>

cliVars == <<cphase, bg, respChan, orphans, unread, bad>>

callVars == <<cClosed, seq, pending, maxRetries, apc, kind, attempt, aseq, aerr,
              gotErr, ctxSt, callErr, callDone, heldErr, heldDone, delay, tries,
              did, late, preDone, xpc, faults, cret>>

\* what the operations of one component never touch
wireVars == <<eSeq, ePc, eId, eConn, eCtx, eArgs, eSink, eHandled, eReq, eStream,
              eFree, eRd, eRdConn, eBuf, eRes, eRet>>

regVars == <<services, regMu, regpc, regIn, regSname, regCalls, regLog>>
protoVars == <<hQueue, hLine, hOut, hCalls, hLoop, gIn, gOut, rLine, rDec, regVars>>
batchVars == <<bpc, bN, bgo, bOut, bErr, errChan, wg, bRet>>

notPool == <<gpVars, srvVars, cliVars, callVars, wireVars, protoVars, batchVars>>
notGP == <<poolVars, srvVars, cliVars, callVars, wireVars, protoVars, batchVars>>
\* what the Client's Call, Go, Batch, Ping and Close never touch
notCall == <<poolVars, ret, gpVars, srvVars, cliVars, wireVars, protoVars, batchVars>>
notWire == <<poolVars, ret, gpVars, srvVars, cliVars, callVars, protoVars, batchVars>>
notProto == <<poolVars, ret, gpVars, srvVars, cliVars, callVars, wireVars, batchVars, regVars>>
notReg == <<poolVars, gpVars, srvVars, cliVars, callVars, wireVars, batchVars,
           hQueue, hLine, hOut, hCalls, hLoop, gIn, gOut, rLine, rDec>>
notBatch == <<poolVars, ret, gpVars, srvVars, cliVars, callVars, wireVars, protoVars>>
poolButClosed == <<maxIdle, maxActive, testOnGet, idleConns, idleClosed, activeNum,
                   mu, connSt, pc, cur, held, cleanN, cleanI>>

vars == <<poolVars, ret, gpVars, srvVars, cliVars, callVars, wireVars, protoVars, batchVars>>

(***************************************************************************)
(* ConnPool                                                                *)
(***************************************************************************)

\* NewConnPool: an open pool with no connection.  The configuration is an
\* input: the idle queue holds one connection (so that a Put can find it
\* full), MaxActive is unlimited (0) or 1, and the health check on Get is on
\* or off.
InitPool ==
    /\ maxIdle = 1
    /\ maxActive \in {0, 1}
    /\ testOnGet \in BOOLEAN
    /\ idleConns = <<>>
    /\ idleClosed = FALSE
    /\ activeNum = 0
    /\ closed = 0
    /\ mu = 0
    /\ connSt = [c \in Conns |-> "closed"]
    /\ pc = [p \in Procs |-> "idle"]
    /\ cur = [p \in Procs |-> NilConn]
    /\ held = [p \in Procs |-> NilConn]
    /\ ret = NoRet
    /\ cleanN = 0
    /\ cleanI = 0

\* a step that is not the return of an operation
Running == ret' = NoRet

\* An unrecovered panic ends the Go program: no goroutine takes another step.
Crashed == \E p \in Procs : pc[p] = "panic"

\* (mutant) the increment after a successful dial is forgotten
IncActiveMissing(n) == n

\* (mutant) a destroyed connection that stays counted
DecActiveMissing(n) == n

\* atomic.AddInt32(&p.activeNum, 1) and atomic.AddInt32(&p.activeNum, -1)
IncActive(n) == n + 1
DecActive(n) == n - 1

\* (mutant) conn.Close() is forgotten: the connection stays open
CloseConnMissing(c) == connSt

\* conn.Close() on a connection taken out of the pool
CloseConn(c) == [connSt EXCEPT ![c] = "closed"]

\* p.dial(): the connection a successful dial creates
FreshConns == {c \in Conns : connSt[c] = "closed"}
DialConn == CHOOSE c \in FreshConns : \A d \in FreshConns : c <= d

\* a finished operation: back to the caller with an outcome; a caller that
\* got a connection (r = "ok", or "ok_nil" for the nil one) holds it until Put
Return(p, r) ==
    /\ pc' = [pc EXCEPT ![p] = IF r \in {"ok", "ok_nil"} THEN "leased" ELSE "idle"]
    /\ ret' = <<p, r>>

\* ---- Get --------------------------------------------------------------

\* Get, entry: the closed check
Get_checkClosed(p) ==
    /\ ~Crashed
    /\ p \in Users
    /\ pc[p] \in {"idle", "get_retry"}
    /\ IF closed = 1
         THEN Return(p, "ErrPoolClosed")
         ELSE /\ pc' = [pc EXCEPT ![p] = "get_select"]
              /\ Running
    /\ UNCHANGED <<notPool, cfgVars, idleConns, idleClosed, activeNum,
                   closed, mu, connSt, cur, held, cleanN, cleanI>>

\* Get, fast path: select { case conn := <-p.idleConns: ... default: }
Get_selectIdle(p) ==
    /\ ~Crashed
    /\ pc[p] = "get_select"
    /\ IF Len(idleConns) > 0
         THEN /\ idleConns' = Tail(idleConns)
              /\ cur' = [cur EXCEPT ![p] = Head(idleConns)]
              /\ IF testOnGet
                   THEN pc' = [pc EXCEPT ![p] = "get_test"] /\ UNCHANGED held /\ Running
                   ELSE /\ held' = [held EXCEPT ![p] = Head(idleConns)]
                        /\ Return(p, "ok")
         ELSE IF idleClosed
           THEN \* a receive from the closed, empty channel yields nil at once
                /\ cur' = [cur EXCEPT ![p] = NilConn]
                /\ IF testOnGet
                     THEN pc' = [pc EXCEPT ![p] = "get_test"] /\ UNCHANGED held /\ Running
                     ELSE /\ held' = [held EXCEPT ![p] = NilConn]
                          /\ Return(p, "ok_nil")
                /\ UNCHANGED idleConns
           ELSE /\ pc' = [pc EXCEPT ![p] = "get_checkMax"]
                /\ UNCHANGED <<idleConns, cur, held>>
                /\ Running
    /\ UNCHANGED <<notPool, cfgVars, idleClosed, activeNum,
                   closed, mu, connSt, cleanN, cleanI>>

\* Get, health check of the idle connection: p.testConn(conn); on failure
\* conn.Close(), activeNum-- and the recursive p.Get()
Get_testConn(p) ==
    /\ ~Crashed
    /\ pc[p] = "get_test"
    /\ IF cur[p] = NilConn
         THEN \* a method call on the nil net.Conn panics
              /\ pc' = [pc EXCEPT ![p] = "panic"]
              /\ UNCHANGED <<activeNum, connSt, cur, held>>
              /\ Running
         ELSE \E healthy \in BOOLEAN :
                IF healthy
                  THEN /\ held' = [held EXCEPT ![p] = cur[p]]
                       /\ cur' = [cur EXCEPT ![p] = NilConn]
                       /\ Return(p, "ok")
                       /\ UNCHANGED <<activeNum, connSt>>
                  ELSE /\ connSt' = CloseConn(cur[p])
                       /\ activeNum' = DecActive(activeNum)
                       /\ cur' = [cur EXCEPT ![p] = NilConn]
                       /\ pc' = [pc EXCEPT ![p] = "get_retry"]
                       /\ UNCHANGED held /\ Running
    /\ UNCHANGED <<notPool, cfgVars, idleConns, idleClosed,
                   closed, mu, cleanN, cleanI>>

\* Get, slow path: the load of activeNum and its comparison with maxActive
Get_checkMax(p) ==
    /\ ~Crashed
    /\ pc[p] = "get_checkMax"
    /\ IF maxActive > 0 /\ activeNum >= maxActive
         THEN Return(p, "ErrPoolExhausted")
         ELSE pc' = [pc EXCEPT ![p] = "get_dial"] /\ Running
    /\ UNCHANGED <<notPool, cfgVars, idleConns, idleClosed, activeNum,
                   closed, mu, connSt, cur, held, cleanN, cleanI>>

\* Get, slow path: p.dial() fails
Get_dialFail(p) ==
    /\ ~Crashed
    /\ pc[p] = "get_dial"
    /\ Return(p, "DialError")
    /\ UNCHANGED <<notPool, cfgVars, idleConns, idleClosed, activeNum,
                   closed, mu, connSt, cur, held, cleanN, cleanI>>

\* Get, slow path: p.dial() succeeds, atomic.AddInt32(&p.activeNum, 1),
\* return conn, nil.  The dialed connection is known to nobody else before
\* the increment, so the two are one step.
Get_dialOk(p) ==
    /\ ~Crashed
    /\ pc[p] = "get_dial"
    /\ FreshConns # {}
    /\ connSt' = [connSt EXCEPT ![DialConn] = "open"]
    /\ activeNum' = IncActive(activeNum)
    /\ held' = [held EXCEPT ![p] = DialConn]
    /\ Return(p, "ok")
    /\ UNCHANGED <<notPool, cfgVars, idleConns, idleClosed, closed, mu, cur, cleanN,
                   cleanI>>

\* ---- Put --------------------------------------------------------------

\* Put, entry: the nil check and the closed check; on a closed pool
\* conn.Close(), activeNum--, return ErrPoolClosed
Put_checkClosed(p) ==
    /\ ~Crashed
    /\ p \in Users
    /\ pc[p] = "leased"
    /\ held' = [held EXCEPT ![p] = NilConn]
    /\ IF held[p] = NilConn
         THEN /\ Return(p, "ErrInvalidConn")
              /\ UNCHANGED <<activeNum, connSt, cur>>
         ELSE IF closed = 1
           THEN /\ connSt' = CloseConn(held[p])
                /\ activeNum' = DecActive(activeNum)
                /\ Return(p, "put_ErrPoolClosed")
                /\ UNCHANGED cur
           ELSE /\ cur' = [cur EXCEPT ![p] = held[p]]
                /\ pc' = [pc EXCEPT ![p] = "put_select"]
                /\ Running
                /\ UNCHANGED <<activeNum, connSt>>
    /\ UNCHANGED <<notPool, cfgVars, idleConns, idleClosed, closed, mu, cleanN, cleanI>>

\* (mutant) Put decrements the active count also when the connection goes
\* back into the idle queue
AfterIdleInsertDec(n) == n - 1

\* the active count after the connection went back into the idle queue
AfterIdleInsert(n) == n

\* Put: select { case p.idleConns <- conn: default: conn.Close(); activeNum-- }
Put_select(p) ==
    /\ ~Crashed
    /\ pc[p] = "put_select"
    /\ IF idleClosed
         THEN \* a send on a closed channel panics, also inside a select
              /\ pc' = [pc EXCEPT ![p] = "panic"]
              /\ UNCHANGED <<idleConns, activeNum, connSt, cur>>
              /\ Running
         ELSE /\ IF Len(idleConns) < maxIdle
                   THEN /\ idleConns' = Append(idleConns, cur[p])
                        /\ activeNum' = AfterIdleInsert(activeNum)
                        /\ Return(p, "put_idle")
                        /\ UNCHANGED connSt
                   ELSE /\ connSt' = CloseConn(cur[p])
                        /\ activeNum' = DecActive(activeNum)
                        /\ Return(p, "put_full")
                        /\ UNCHANGED idleConns
              /\ cur' = [cur EXCEPT ![p] = NilConn]
    /\ UNCHANGED <<notPool, cfgVars, idleClosed, closed, mu, held, cleanN, cleanI>>

\* ---- Close ------------------------------------------------------------

\* Close: p.mu.Lock(); the closed check; atomic.StoreInt32(&p.closed, 1)
Close_lock(p) ==
    /\ ~Crashed
    /\ p = Closer
    /\ pc[p] = "idle"
    /\ mu = 0
    /\ IF closed = 1
         THEN Return(p, "close_noop") /\ UNCHANGED <<closed, mu>>
         ELSE /\ closed' = 1
              /\ mu' = p
              /\ pc' = [pc EXCEPT ![p] = "close_chan"]
              /\ Running
    /\ UNCHANGED <<notPool, cfgVars, idleConns, idleClosed, activeNum, connSt, cur,
                   held,
                   cleanN, cleanI>>

\* Close: close(p.idleConns)
Close_closeChan(p) ==
    /\ ~Crashed
    /\ pc[p] = "close_chan"
    /\ idleClosed' = TRUE
    /\ pc' = [pc EXCEPT ![p] = "close_drain"]
    /\ UNCHANGED <<notPool, cfgVars, idleConns, activeNum, closed, mu, connSt, cur,
                   held,
                   cleanN, cleanI>>
    /\ Running

\* Close: one iteration of for conn := range p.idleConns (conn.Close(),
\* activeNum--), and, once the channel is drained, the deferred p.mu.Unlock()
Close_drain(p) ==
    /\ ~Crashed
    /\ pc[p] = "close_drain"
    /\ IF Len(idleConns) > 0
         THEN /\ idleConns' = Tail(idleConns)
              /\ connSt' = CloseConn(Head(idleConns))
              /\ activeNum' = DecActive(activeNum)
              /\ UNCHANGED <<mu, pc>>
              /\ Running
         ELSE /\ mu' = 0
              /\ Return(p, "close_done")
              /\ UNCHANGED <<idleConns, connSt, activeNum>>
    /\ UNCHANGED <<notPool, cfgVars, idleClosed, closed, cur, held, cleanN, cleanI>>

\* ---- CleanIdleConns -----------------------------------------------------

\* CleanIdleConns, entry: the closed check and idleCount := len(p.idleConns)
Clean_start(p) ==
    /\ ~Crashed
    /\ p = Cleaner
    /\ pc[p] = "idle"
    /\ IF closed = 1
         THEN Return(p, "none") /\ UNCHANGED <<cleanN, cleanI>>
         ELSE /\ cleanN' = Len(idleConns)
              /\ cleanI' = 0
              /\ pc' = [pc EXCEPT ![p] = "clean_loop"]
              /\ Running
    /\ UNCHANGED <<notPool, cfgVars, idleConns, idleClosed, activeNum, closed, mu,
                   connSt,
                   cur, held>>

\* CleanIdleConns: the loop test i < idleCount and the receiving select
Clean_loop(p) ==
    /\ ~Crashed
    /\ pc[p] = "clean_loop"
    /\ IF cleanI >= cleanN \/ (Len(idleConns) = 0 /\ ~idleClosed)
         THEN \* the loop ends, or the queue is empty (default): return cleaned
              /\ Return(p, "none")
              /\ cleanN' = 0
              /\ cleanI' = 0
              /\ UNCHANGED <<idleConns, cur>>
         ELSE /\ IF Len(idleConns) > 0
                   THEN /\ idleConns' = Tail(idleConns)
                        /\ cur' = [cur EXCEPT ![p] = Head(idleConns)]
                   ELSE \* the closed, empty channel delivers nil
                        /\ cur' = [cur EXCEPT ![p] = NilConn]
                        /\ UNCHANGED idleConns
              /\ pc' = [pc EXCEPT ![p] = "clean_test"]
              /\ UNCHANGED <<cleanN, cleanI>>
              /\ Running
    /\ UNCHANGED <<notPool, cfgVars, idleClosed, activeNum, closed, mu, connSt, held>>

\* CleanIdleConns: p.testConn(conn); an unhealthy connection is closed and
\* the active count decremented
Clean_testConn(p) ==
    /\ ~Crashed
    /\ pc[p] = "clean_test"
    /\ IF cur[p] = NilConn
         THEN /\ pc' = [pc EXCEPT ![p] = "panic"]
              /\ UNCHANGED <<activeNum, connSt, cur, cleanI>>
         ELSE \E healthy \in BOOLEAN :
                IF healthy
                  THEN /\ pc' = [pc EXCEPT ![p] = "clean_put"]
                       /\ UNCHANGED <<activeNum, connSt, cur, cleanI>>
                  ELSE /\ connSt' = CloseConn(cur[p])
                       /\ activeNum' = DecActive(activeNum)
                       /\ cur' = [cur EXCEPT ![p] = NilConn]
                       /\ cleanI' = cleanI + 1
                       /\ pc' = [pc EXCEPT ![p] = "clean_loop"]
    /\ UNCHANGED <<notPool, cfgVars, idleConns, idleClosed, closed, mu, held, cleanN>>
    /\ Running

\* CleanIdleConns: the healthy connection goes back:
\* select { case p.idleConns <- conn: default: conn.Close(); activeNum-- }
Clean_putBack(p) ==
    /\ ~Crashed
    /\ pc[p] = "clean_put"
    /\ IF idleClosed
         THEN /\ pc' = [pc EXCEPT ![p] = "panic"]
              /\ UNCHANGED <<idleConns, activeNum, connSt, cur, cleanI>>
         ELSE /\ IF Len(idleConns) < maxIdle
                   THEN /\ idleConns' = Append(idleConns, cur[p])
                        /\ UNCHANGED <<activeNum, connSt>>
                   ELSE /\ connSt' = CloseConn(cur[p])
                        /\ activeNum' = DecActive(activeNum)
                        /\ UNCHANGED idleConns
              /\ cur' = [cur EXCEPT ![p] = NilConn]
              /\ cleanI' = cleanI + 1
              /\ pc' = [pc EXCEPT ![p] = "clean_loop"]
    /\ UNCHANGED <<notPool, cfgVars, idleClosed, closed, mu, held, cleanN>>
    /\ Running

(***************************************************************************)
(* GoroutinePool                                                           *)
(***************************************************************************)

\* NewGoroutinePool: an open pool, an empty queue, every worker started
InitGP ==
    /\ gpClosed = 0
    /\ taskQueue = <<>>
    /\ queueClosed = FALSE
    /\ wpc = [w \in Workers |-> "recv"]
    /\ wtask = [w \in Workers |-> NoTask]
    /\ tpc = [w \in Workers |-> "none"]
    /\ spc = [s \in Submitters |-> "idle"]
    /\ stask = [s \in Submitters |-> NoTask]
    /\ cpc = [c \in Closers |-> "idle"]
    /\ nextTask = 1
    /\ sAfter = [s \in Submitters |-> FALSE]
    /\ executed = {}
    /\ panicked = {}
    /\ rejected = {}

\* NewServer: the queue holds twice as many tasks as there are workers
QueueCap == 2 * NumWorkers

\* a send on the closed task queue panics, and nothing recovers it in the
\* goroutine that called Submit: the program ends
GPCrashed == \E s \in Submitters : spc[s] = "panic"

\* the tasks in the queue, and the tasks some worker is executing
QueuedTasks == {taskQueue[i] : i \in 1..Len(taskQueue)}
RunningTasks == {wtask[w] : w \in {x \in Workers : wpc[x] = "run"}}

\* ---- worker -----------------------------------------------------------

\* worker: for task := range p.taskQueue: the receive; once the queue is
\* closed and drained the loop ends and the deferred p.wg.Done() runs
Worker_recv(w) ==
    /\ ~GPCrashed
    /\ wpc[w] = "recv"
    /\ Len(taskQueue) > 0 \/ queueClosed
    /\ IF Len(taskQueue) > 0
         THEN /\ taskQueue' = Tail(taskQueue)
              /\ wpc' = [wpc EXCEPT ![w] = "run"]
              /\ wtask' = [wtask EXCEPT ![w] = Head(taskQueue)]
              /\ tpc' = [tpc EXCEPT ![w] = "begin"]
              /\ executed' = executed \cup {Head(taskQueue)}
         ELSE /\ wpc' = [wpc EXCEPT ![w] = "exited"]
              /\ UNCHANGED <<taskQueue, wtask, tpc, executed>>
    /\ Running
    /\ UNCHANGED <<notGP, gpClosed, queueClosed, spc, stask, cpc, nextTask,
                   sAfter, panicked, rejected>>

\* worker: task() of a plain task: it returns, or it panics
Task_body(w) ==
    /\ ~GPCrashed
    /\ wpc[w] = "run"
    /\ tpc[w] = "begin"
    /\ \E t \in {"end", "panicked"} :
        /\ tpc' = [tpc EXCEPT ![w] = t]
        /\ panicked' = IF t = "panicked" THEN panicked \cup {wtask[w]} ELSE panicked
    /\ Running
    /\ UNCHANGED <<notGP, gpClosed, taskQueue, queueClosed, wpc, wtask, spc, stask,
                   cpc, nextTask, sAfter, executed, rejected>>

\* (mutant) a worker without the deferred recover: a panicking task ends it
Worker_nextDies(w) ==
    /\ ~GPCrashed
    /\ wpc[w] = "run"
    /\ tpc[w] \in {"end", "panicked"}
    /\ wpc' = [wpc EXCEPT ![w] = IF tpc[w] = "panicked" THEN "exited" ELSE "recv"]
    /\ wtask' = [wtask EXCEPT ![w] = NoTask]
    /\ tpc' = [tpc EXCEPT ![w] = "none"]
    /\ Running
    /\ UNCHANGED <<notGP, gpClosed, taskQueue, queueClosed, spc, stask, cpc,
                   nextTask, sAfter, executed, panicked, rejected>>

\* worker: the task is over (a panic is recovered by the deferred function
\* and discarded); back to the receive
Worker_next(w) ==
    /\ ~GPCrashed
    /\ wpc[w] = "run"
    /\ tpc[w] \in {"end", "panicked"}
    /\ wpc' = [wpc EXCEPT ![w] = "recv"]
    /\ wtask' = [wtask EXCEPT ![w] = NoTask]
    /\ tpc' = [tpc EXCEPT ![w] = "none"]
    /\ Running
    /\ UNCHANGED <<notGP, gpClosed, taskQueue, queueClosed, spc, stask, cpc,
                   nextTask, sAfter, executed, panicked, rejected>>

\* ---- Submit -----------------------------------------------------------

\* the position of a submitter whose Submit has returned
SubmitDone == {"idle", "done_ok", "done_err"}

\* Submit is called with a task that is not nil
Submit_enter(s, t) ==
    /\ spc[s] \in SubmitDone
    /\ spc' = [spc EXCEPT ![s] = "check"]
    /\ stask' = [stask EXCEPT ![s] = t]
    /\ sAfter' = [sAfter EXCEPT ![s] = (gpClosed = 1)]

\* Submit returns ErrPoolClosed
Submit_reject(s) ==
    /\ spc' = [spc EXCEPT ![s] = "done_err"]
    /\ rejected' = rejected \cup {stask[s]}
    /\ ret' = <<s, "submit_ErrPoolClosed">>
    /\ UNCHANGED taskQueue

\* Submit puts the task into the queue and returns nil
Submit_accept(s) ==
    /\ spc' = [spc EXCEPT ![s] = "done_ok"]
    /\ taskQueue' = Append(taskQueue, stask[s])
    /\ ret' = <<s, "submit_ok">>
    /\ UNCHANGED rejected

\* (mutant) Submit without its first check of closed
Submit_checkMissing(s) ==
    /\ ~GPCrashed
    /\ spc[s] = "check"
    /\ spc' = [spc EXCEPT ![s] = "select"]
    /\ Running
    /\ UNCHANGED <<notGP, gpClosed, taskQueue, queueClosed, wpc, wtask, tpc, stask,
                   cpc, nextTask, sAfter, executed, panicked, rejected>>

\* Submit: the first load of closed
Submit_check(s) ==
    /\ ~GPCrashed
    /\ spc[s] = "check"
    /\ IF gpClosed = 1
         THEN Submit_reject(s)
         ELSE /\ spc' = [spc EXCEPT ![s] = "select"]
              /\ Running
              /\ UNCHANGED <<taskQueue, rejected>>
    /\ UNCHANGED <<notGP, gpClosed, queueClosed, wpc, wtask, tpc, stask, cpc,
                   nextTask, sAfter, executed, panicked>>

\* Submit: select { case p.taskQueue <- task: return nil; default: }
Submit_select(s) ==
    /\ ~GPCrashed
    /\ spc[s] = "select"
    /\ IF queueClosed
         THEN /\ spc' = [spc EXCEPT ![s] = "panic"]
              /\ Running
              /\ UNCHANGED <<taskQueue, rejected>>
         ELSE IF Len(taskQueue) < QueueCap
           THEN Submit_accept(s)
           ELSE /\ spc' = [spc EXCEPT ![s] = "recheck"]
                /\ Running
                /\ UNCHANGED <<taskQueue, rejected>>
    /\ UNCHANGED <<notGP, gpClosed, queueClosed, wpc, wtask, tpc, stask, cpc,
                   nextTask, sAfter, executed, panicked>>

\* Submit, default branch: the second load of closed
Submit_recheck(s) ==
    /\ ~GPCrashed
    /\ spc[s] = "recheck"
    /\ IF gpClosed = 1
         THEN Submit_reject(s)
         ELSE /\ spc' = [spc EXCEPT ![s] = "send"]
              /\ Running
              /\ UNCHANGED <<taskQueue, rejected>>
    /\ UNCHANGED <<notGP, gpClosed, queueClosed, wpc, wtask, tpc, stask, cpc,
                   nextTask, sAfter, executed, panicked>>

\* (mutant) the blocking send on a queue without a capacity: it never waits
\* for a free place
Submit_sendUnbounded(s) ==
    /\ ~GPCrashed
    /\ spc[s] = "send"
    /\ IF queueClosed
         THEN /\ spc' = [spc EXCEPT ![s] = "panic"]
              /\ Running
              /\ UNCHANGED <<taskQueue, rejected>>
         ELSE Submit_accept(s)
    /\ UNCHANGED <<notGP, gpClosed, queueClosed, wpc, wtask, tpc, stask, cpc,
                   nextTask, sAfter, executed, panicked>>

\* Submit, default branch: the blocking send p.taskQueue <- task
Submit_send(s) ==
    /\ ~GPCrashed
    /\ spc[s] = "send"
    /\ queueClosed \/ Len(taskQueue) < QueueCap
    /\ IF queueClosed
         THEN /\ spc' = [spc EXCEPT ![s] = "panic"]
              /\ Running
              /\ UNCHANGED <<taskQueue, rejected>>
         ELSE Submit_accept(s)
    /\ UNCHANGED <<notGP, gpClosed, queueClosed, wpc, wtask, tpc, stask, cpc,
                   nextTask, sAfter, executed, panicked>>

\* ---- Close ------------------------------------------------------------

\* the position of a closer whose Close has returned
CloseDone == {"idle", "done"}

\* Close is called
Close_enter(c) ==
    /\ cpc[c] \in CloseDone
    /\ cpc' = [cpc EXCEPT ![c] = "cas"]

\* Close: atomic.CompareAndSwapInt32(&p.closed, 0, 1); a pool that is
\* already closed makes Close return at once
Close_cas(c) ==
    /\ ~GPCrashed
    /\ cpc[c] = "cas"
    /\ IF gpClosed = 1
         THEN /\ cpc' = [cpc EXCEPT ![c] = "done"]
              /\ ret' = <<c, "close_already">>
              /\ UNCHANGED gpClosed
         ELSE /\ gpClosed' = 1
              /\ cpc' = [cpc EXCEPT ![c] = "closeChan"]
              /\ Running
    /\ UNCHANGED <<notGP, taskQueue, queueClosed, wpc, wtask, tpc, spc, stask,
                   nextTask, sAfter, executed, panicked, rejected>>

\* Close: close(p.taskQueue)
Close_closeQueue(c) ==
    /\ ~GPCrashed
    /\ cpc[c] = "closeChan"
    /\ queueClosed' = TRUE
    /\ cpc' = [cpc EXCEPT ![c] = "wait"]
    /\ Running
    /\ UNCHANGED <<notGP, gpClosed, taskQueue, wpc, wtask, tpc, spc, stask,
                   nextTask, sAfter, executed, panicked, rejected>>

\* Close: p.wg.Wait() returns once every worker has run wg.Done()
Close_wait(c) ==
    /\ ~GPCrashed
    /\ cpc[c] = "wait"
    /\ \A w \in Workers : wpc[w] = "exited"
    /\ cpc' = [cpc EXCEPT ![c] = "done"]
    /\ ret' = <<c, "close_joined">>
    /\ UNCHANGED <<notGP, gpClosed, taskQueue, queueClosed, wpc, wtask, tpc, spc,
                   stask, nextTask, sAfter, executed, panicked, rejected>>

\* ---- the callers of a stand-alone GoroutinePool -----------------------

\* a goroutine calls Submit with a new task
GP_callSubmit(s) ==
    /\ ~GPCrashed
    /\ nextTask <= MaxTasks
    /\ Submit_enter(s, nextTask)
    /\ nextTask' = nextTask + 1
    /\ Running
    /\ UNCHANGED <<notGP, gpClosed, taskQueue, queueClosed, wpc, wtask, tpc, cpc,
                   executed, panicked, rejected>>

\* a goroutine calls Close
GP_callClose(c) ==
    /\ ~GPCrashed
    /\ Close_enter(c)
    /\ Running
    /\ UNCHANGED <<notGP, gpClosed, taskQueue, queueClosed, wpc, wtask, tpc, spc,
                   stask, nextTask, sAfter, executed, panicked, rejected>>

NextGP ==
    \/ \E w \in Workers :
        \/ Worker_recv(w)
        \/ Task_body(w)
        \/ Worker_next(w)
    \/ \E s \in Submitters :
        \/ GP_callSubmit(s)
        \/ Submit_check(s)
        \/ Submit_select(s)
        \/ Submit_recheck(s)
        \/ Submit_send(s)
    \/ \E c \in Closers :
        \/ GP_callClose(c)
        \/ Close_cas(c)
        \/ Close_closeQueue(c)
        \/ Close_wait(c)

(***************************************************************************)
(* Server (part_004: 21-350): Serve, handleConn, Shutdown, Close           *)
(***************************************************************************)

\* NewServer: no listener, flag clear, an empty wait group; no client has
\* connected and nobody has called Serve, Shutdown or Close
InitServer ==
    /\ sShutdown = 0
    /\ sListener = "nil"
    /\ lsn = "none"
    /\ swg = 0
    /\ vpc = "init"
    /\ vconn = NoTask
    /\ cst = [c \in SConns |-> "none"]
    /\ creq = [c \in SConns |-> "none"]
    /\ kpc = [k \in Stoppers |-> "idle"]
    /\ kctx = [k \in Stoppers |-> "none"]
    /\ kwait = [k \in Stoppers |-> "none"]
    /\ hAtShutdown = {}
    /\ rAtShutdown = {}

\* the connections with a handler in flight: s.wg.Add(1) has run for them
\* and the matching s.wg.Done() has not (the connection is on its way into
\* the queue, in the queue, or its handler runs)
InFlight ==
    (IF vpc = "submitting" /\ spc[1] # "done_ok" THEN {vconn} ELSE {})
        \cup QueuedTasks
        \cup {wtask[w] : w \in {x \in Workers : wpc[x] = "run" /\ tpc[x] # "end"}}

\* the critical section of Shutdown and Close: if s.listener != nil, close
\* it and set s.listener = nil
CloseListener ==
    IF sListener = "set"
      THEN /\ lsn' = "closed"
           /\ sListener' = "nil"
      ELSE UNCHANGED <<lsn, sListener>>

\* ---- Serve ------------------------------------------------------------

\* Serve: under s.mu, refuse a second listener, else net.Listen and install
\* the listener
Serve_listen ==
    /\ ~GPCrashed
    /\ vpc = "init"
    /\ IF sListener = "set"
         THEN /\ vpc' = "returned"
              /\ ret' = <<1, "serve_already_running">>
              /\ UNCHANGED <<lsn, sListener>>
         ELSE \/ /\ vpc' = "returned"
                 /\ ret' = <<1, "serve_listen_failed">>
                 /\ UNCHANGED <<lsn, sListener>>
              \/ /\ lsn' = "open"
                 /\ sListener' = "set"
                 /\ vpc' = "check"
                 /\ Running
    /\ UNCHANGED <<poolVars, cliVars, callVars, wireVars, protoVars, batchVars, gpVars, sShutdown, swg, vconn, cst, creq, kpc,
                   kctx, kwait, hAtShutdown, rAtShutdown>>

\* Serve, top of the accept loop: the load of s.shutdown
Serve_check ==
    /\ ~GPCrashed
    /\ vpc = "check"
    /\ IF sShutdown = 1
         THEN /\ vpc' = "returned"
              /\ ret' = <<1, "serve_nil">>
         ELSE /\ vpc' = "accept"
              /\ Running
    /\ UNCHANGED <<poolVars, cliVars, callVars, wireVars, protoVars, batchVars, gpVars, sShutdown, sListener, lsn, swg, vconn, cst,
                   creq, kpc, kctx, kwait, hAtShutdown, rAtShutdown>>

\* Serve: listener.Accept() returns a connection; s.wg.Add(1) and the call
\* of s.pool.Submit follow
Serve_accept(c) ==
    /\ ~GPCrashed
    /\ vpc = "accept"
    /\ lsn = "open"
    /\ cst[c] = "backlog"
    /\ cst' = [cst EXCEPT ![c] = "accepted"]
    /\ vconn' = c
    /\ vpc' = "add"
    /\ Running
    /\ UNCHANGED <<poolVars, cliVars, callVars, wireVars, protoVars, batchVars, gpVars, sShutdown, sListener, lsn, swg, creq,
                   kpc, kctx, kwait, hAtShutdown, rAtShutdown>>

\* Serve: listener.Accept() returns an error: the listener is closed, or a
\* transient failure
Serve_acceptErr ==
    /\ ~GPCrashed
    /\ vpc = "accept"
    /\ vpc' = "accept_err"
    /\ Running
    /\ UNCHANGED <<poolVars, cliVars, callVars, wireVars, protoVars, batchVars, gpVars, sShutdown, sListener, lsn, swg, vconn, cst,
                   creq, kpc, kctx, kwait, hAtShutdown, rAtShutdown>>

\* Serve, after an accept error: the load of s.shutdown; break or continue
Serve_errCheck ==
    /\ ~GPCrashed
    /\ vpc = "accept_err"
    /\ IF sShutdown = 1
         THEN /\ vpc' = "returned"
              /\ ret' = <<1, "serve_nil">>
         ELSE /\ vpc' = "check"
              /\ Running
    /\ UNCHANGED <<poolVars, cliVars, callVars, wireVars, protoVars, batchVars, gpVars, sShutdown, sListener, lsn, swg, vconn, cst,
                   creq, kpc, kctx, kwait, hAtShutdown, rAtShutdown>>

\* Serve: s.wg.Add(1), then s.pool.Submit(func() {...}) is entered
Serve_add ==
    /\ ~GPCrashed
    /\ vpc = "add"
    /\ swg' = swg + 1
    /\ Submit_enter(1, vconn)
    /\ vpc' = "submitting"
    /\ Running
    /\ UNCHANGED <<poolVars, cliVars, callVars, wireVars, protoVars, batchVars, gpClosed, taskQueue, queueClosed, wpc, wtask, tpc, cpc,
                   nextTask, executed, panicked, rejected>>
    /\ UNCHANGED <<sShutdown, sListener, lsn, vconn, cst, creq, kpc, kctx,
                   kwait, hAtShutdown, rAtShutdown>>

\* Serve: Submit has returned; on an error s.wg.Done() and conn.Close()
Serve_afterSubmit ==
    /\ ~GPCrashed
    /\ vpc = "submitting"
    /\ spc[1] \in {"done_ok", "done_err"}
    /\ IF spc[1] = "done_err"
         THEN /\ swg' = swg - 1
              /\ cst' = [cst EXCEPT ![vconn] = "closed"]
              /\ hAtShutdown' = hAtShutdown \ {vconn}
         ELSE UNCHANGED <<swg, cst, hAtShutdown>>
    /\ spc' = [spc EXCEPT ![1] = "idle"]
    /\ vconn' = NoTask
    /\ vpc' = "check"
    /\ Running
    /\ UNCHANGED <<poolVars, cliVars, callVars, wireVars, protoVars, batchVars, gpClosed, taskQueue, queueClosed, wpc, wtask, tpc, stask,
                   cpc, nextTask, sAfter, executed, panicked, rejected>>
    /\ UNCHANGED <<sShutdown, sListener, lsn, creq, kpc, kctx, kwait, rAtShutdown>>

\* ---- handleConn, run by a worker as the task of connection wtask[w] ----

\* the worker pool's variables a step of a handler leaves alone
gpRest == <<gpClosed, taskQueue, queueClosed, wpc, wtask, spc, stask, cpc, nextTask,
            sAfter, executed, panicked, rejected>>

\* handleConn, top of the loop: the load of s.shutdown
H_check(w) ==
    /\ ~GPCrashed
    /\ wpc[w] = "run"
    /\ tpc[w] \in {"begin", "loop"}
    /\ tpc' = [tpc EXCEPT ![w] = IF sShutdown = 1 THEN "exit" ELSE "read"]
    /\ Running
    /\ UNCHANGED <<poolVars, cliVars, callVars, wireVars, protoVars, batchVars, gpRest, srvVars>>

\* handleConn: reader.ReadBytes('\n') returns a request line
H_read(w) ==
    /\ ~GPCrashed
    /\ wpc[w] = "run"
    /\ tpc[w] = "read"
    /\ creq[wtask[w]] = "sent"
    /\ creq' = [creq EXCEPT ![wtask[w]] = "taken"]
    /\ tpc' = [tpc EXCEPT ![w] = "proc"]
    /\ Running
    /\ UNCHANGED <<poolVars, cliVars, callVars, wireVars, protoVars, batchVars, gpRest, sShutdown, sListener, lsn, swg, vpc, vconn, cst,
                   kpc, kctx, kwait, hAtShutdown, rAtShutdown>>

\* handleConn: reader.ReadBytes('\n') returns an error while no request
\* line is there to read: io.EOF because the client has closed its end, or
\* the read deadline has passed
H_readFail(w) ==
    /\ ~GPCrashed
    /\ wpc[w] = "run"
    /\ tpc[w] = "read"
    /\ creq[wtask[w]] # "sent"
    /\ tpc' = [tpc EXCEPT ![w] = "exit"]
    /\ Running
    /\ UNCHANGED <<poolVars, cliVars, callVars, wireVars, protoVars, batchVars, gpRest, srvVars>>

\* handleConn: respData := s.processRequest(data), never nil
H_process(w) ==
    /\ ~GPCrashed
    /\ wpc[w] = "run"
    /\ tpc[w] = "proc"
    /\ tpc' = [tpc EXCEPT ![w] = "write"]
    /\ Running
    /\ UNCHANGED <<poolVars, cliVars, callVars, wireVars, protoVars, batchVars, gpRest, srvVars>>

\* handleConn: writer.Write(respData) and writer.Flush() to a client that
\* is waiting for its response
H_write(w) ==
    /\ ~GPCrashed
    /\ wpc[w] = "run"
    /\ tpc[w] = "write"
    /\ creq' = [creq EXCEPT ![wtask[w]] = "answered"]
    /\ tpc' = [tpc EXCEPT ![w] = "loop"]
    /\ Running
    /\ UNCHANGED <<poolVars, cliVars, callVars, wireVars, protoVars, batchVars, gpRest, sShutdown, sListener, lsn, swg, vpc, vconn, cst,
                   kpc, kctx, kwait, hAtShutdown, rAtShutdown>>

\* handleConn returns: the deferred conn.Close(), then the task's deferred
\* s.wg.Done()
H_exit(w) ==
    /\ ~GPCrashed
    /\ wpc[w] = "run"
    /\ tpc[w] = "exit"
    /\ cst' = [cst EXCEPT ![wtask[w]] = "closed"]
    /\ swg' = swg - 1
    /\ hAtShutdown' = hAtShutdown \ {wtask[w]}
    /\ tpc' = [tpc EXCEPT ![w] = "end"]
    /\ Running
    /\ UNCHANGED <<poolVars, cliVars, callVars, wireVars, protoVars, batchVars, gpRest, sShutdown, sListener, lsn, vpc, vconn, creq,
                   kpc, kctx, kwait, rAtShutdown>>

\* ---- the clients' ends of the connections -------------------------------

\* a client dials the server while the listener is open
ClientDial(c) ==
    /\ ~GPCrashed
    /\ lsn = "open"
    /\ cst[c] = "none"
    /\ cst' = [cst EXCEPT ![c] = "backlog"]
    /\ Running
    /\ UNCHANGED <<poolVars, cliVars, callVars, wireVars, protoVars, batchVars, gpVars, sShutdown, sListener, lsn, swg, vpc, vconn,
                   creq, kpc, kctx, kwait, hAtShutdown, rAtShutdown>>

\* a client that waits for no response writes a request line
ClientSend(c) ==
    /\ ~GPCrashed
    /\ cst[c] \in {"backlog", "accepted"}
    /\ creq[c] \in {"none", "answered"}
    /\ creq' = [creq EXCEPT ![c] = "sent"]
    /\ Running
    /\ UNCHANGED <<poolVars, cliVars, callVars, wireVars, protoVars, batchVars, gpVars, sShutdown, sListener, lsn, swg, vpc, vconn, cst,
                   kpc, kctx, kwait, hAtShutdown, rAtShutdown>>

\* ---- Shutdown ------------------------------------------------------------

\* the worker pool's variables a step of a stopper leaves alone
gpButCpc == <<gpClosed, taskQueue, queueClosed, wpc, wtask, tpc, spc, stask,
              nextTask, sAfter, executed, panicked, rejected>>

\* (mutant) a wait on s.wg that returns at once
WgWaitNoWait == TRUE

\* s.wg.Wait() returns when the counter is zero
WgWaitReturns == swg = 0

\* Shutdown(ctx) is called, the deadline of ctx has not passed: the
\* compare-and-swap of s.shutdown; when it fails Shutdown returns the error
\* "server is already shutdown"
SD_cas(k) ==
    /\ ~GPCrashed
    /\ kpc[k] = "idle"
    /\ IF sShutdown = 1
         THEN /\ ret' = <<k, "shutdown_already">>
              /\ kpc' = [kpc EXCEPT ![k] = "returned"]
              /\ UNCHANGED <<sShutdown, kctx, hAtShutdown, rAtShutdown>>
         ELSE /\ sShutdown' = 1
              /\ kpc' = [kpc EXCEPT ![k] = "sd_listener"]
              /\ kctx' = [kctx EXCEPT ![k] = "pending"]
              /\ hAtShutdown' = InFlight
              /\ rAtShutdown' = {c \in SConns : creq[c] = "taken"}
              /\ Running
    /\ UNCHANGED <<poolVars, cliVars, callVars, wireVars, protoVars, batchVars, gpVars, sListener, lsn, swg, vpc, vconn, cst, creq,
                   kwait>>

\* Shutdown: under s.mu close the listener; then start the goroutine that
\* waits on s.wg and closes done
SD_listener(k) ==
    /\ ~GPCrashed
    /\ kpc[k] = "sd_listener"
    /\ CloseListener
    /\ kwait' = [kwait EXCEPT ![k] = "waiting"]
    /\ kpc' = [kpc EXCEPT ![k] = "sd_select"]
    /\ Running
    /\ UNCHANGED <<poolVars, cliVars, callVars, wireVars, protoVars, batchVars, gpVars, sShutdown, swg, vpc, vconn, cst, creq,
                   kctx, hAtShutdown, rAtShutdown>>

\* Shutdown's goroutine: s.wg.Wait() returns and close(done)
SD_waiter(k) ==
    /\ ~GPCrashed
    /\ kwait[k] = "waiting"
    /\ WgWaitReturns
    /\ kwait' = [kwait EXCEPT ![k] = "closed"]
    /\ Running
    /\ UNCHANGED <<poolVars, cliVars, callVars, wireVars, protoVars, batchVars, gpVars, sShutdown, sListener, lsn, swg, vpc, vconn, cst,
                   creq, kpc, kctx, hAtShutdown, rAtShutdown>>

\* the deadline of the ctx given to Shutdown passes
CtxExpire(k) ==
    /\ ~GPCrashed
    /\ kctx[k] = "pending"
    /\ kctx' = [kctx EXCEPT ![k] = "expired"]
    /\ Running
    /\ UNCHANGED <<poolVars, cliVars, callVars, wireVars, protoVars, batchVars, gpVars, sShutdown, sListener, lsn, swg, vpc, vconn, cst,
                   creq, kpc, kwait, hAtShutdown, rAtShutdown>>

\* Shutdown has left its select: it looks at done and ctx no more (the
\* goroutine that waits on s.wg may still be there, nothing receives from
\* done any more)
AfterSelect(k) ==
    /\ kctx' = [kctx EXCEPT ![k] = "none"]
    /\ kwait' = [kwait EXCEPT ![k] = "none"]

\* Shutdown, select: case <-done; s.pool.Close() is entered
SD_selectDone(k) ==
    /\ ~GPCrashed
    /\ kpc[k] = "sd_select"
    /\ kwait[k] = "closed"
    /\ kpc' = [kpc EXCEPT ![k] = "sd_close_done"]
    /\ AfterSelect(k)
    /\ Close_enter(k)
    /\ Running
    /\ UNCHANGED <<poolVars, cliVars, callVars, wireVars, protoVars, batchVars, gpButCpc, sShutdown, sListener, lsn, swg, vpc, vconn,
                   cst, creq, hAtShutdown, rAtShutdown>>

\* Shutdown, select: case <-ctx.Done(); s.pool.Close() is entered
SD_selectTimeout(k) ==
    /\ ~GPCrashed
    /\ kpc[k] = "sd_select"
    /\ kctx[k] = "expired"
    /\ kpc' = [kpc EXCEPT ![k] = "sd_close_timeout"]
    /\ AfterSelect(k)
    /\ Close_enter(k)
    /\ Running
    /\ UNCHANGED <<poolVars, cliVars, callVars, wireVars, protoVars, batchVars, gpButCpc, sShutdown, sListener, lsn, swg, vpc, vconn,
                   cst, creq, hAtShutdown, rAtShutdown>>

\* Shutdown: s.pool.Close() has returned; return listenerErr, or the
\* "shutdown timeout" error
SD_return(k) ==
    /\ ~GPCrashed
    /\ kpc[k] \in {"sd_close_done", "sd_close_timeout"}
    /\ cpc[k] = "done"
    /\ ret' = <<k, IF kpc[k] = "sd_close_done" THEN "shutdown_done"
                                               ELSE "shutdown_timeout">>
    /\ kpc' = [kpc EXCEPT ![k] = "returned"]
    /\ cpc' = [cpc EXCEPT ![k] = "idle"]
    /\ UNCHANGED <<poolVars, cliVars, callVars, wireVars, protoVars, batchVars, gpButCpc, sShutdown, sListener, lsn, swg, vpc, vconn,
                   cst, creq, kctx, kwait, hAtShutdown, rAtShutdown>>

\* ---- Close --------------------------------------------------------------

\* Server.Close is called: atomic.StoreInt32(&s.shutdown, 1)
SC_store(k) ==
    /\ ~GPCrashed
    /\ kpc[k] = "idle"
    /\ sShutdown' = 1
    /\ kpc' = [kpc EXCEPT ![k] = "sc_listener"]
    /\ Running
    /\ UNCHANGED <<poolVars, cliVars, callVars, wireVars, protoVars, batchVars, gpVars, sListener, lsn, swg, vpc, vconn, cst, creq,
                   kctx, kwait, hAtShutdown, rAtShutdown>>

\* Server.Close: under s.mu close the listener; s.pool.Close() is entered
SC_listener(k) ==
    /\ ~GPCrashed
    /\ kpc[k] = "sc_listener"
    /\ CloseListener
    /\ kpc' = [kpc EXCEPT ![k] = "sc_close"]
    /\ Close_enter(k)
    /\ Running
    /\ UNCHANGED <<poolVars, cliVars, callVars, wireVars, protoVars, batchVars, gpButCpc, sShutdown, swg, vpc, vconn, cst, creq,
                   kctx, kwait, hAtShutdown, rAtShutdown>>

\* Server.Close: s.pool.Close() has returned; return err
SC_return(k) ==
    /\ ~GPCrashed
    /\ kpc[k] = "sc_close"
    /\ cpc[k] = "done"
    /\ ret' = <<k, "server_close_returned">>
    /\ kpc' = [kpc EXCEPT ![k] = "returned"]
    /\ cpc' = [cpc EXCEPT ![k] = "idle"]
    /\ UNCHANGED <<poolVars, cliVars, callVars, wireVars, protoVars, batchVars, gpButCpc, sShutdown, sListener, lsn, swg, vpc, vconn,
                   cst, creq, kctx, kwait, hAtShutdown, rAtShutdown>>

\* Serve is the one submitter and SConns has no more connections than the
\* task queue has places (QueueCap), so Submit never takes its default
\* branch here
NextServer ==
    \/ Serve_listen
    \/ Serve_check
    \/ \E c \in SConns : Serve_accept(c)
    \/ Serve_acceptErr
    \/ Serve_errCheck
    \/ Serve_add
    \/ Serve_afterSubmit
    \/ \E s \in Submitters :
        \/ Submit_check(s)
        \/ Submit_select(s)
    \/ \E w \in Workers :
        \/ Worker_recv(w)
        \/ H_check(w)
        \/ H_read(w)
        \/ H_readFail(w)
        \/ H_process(w)
        \/ H_write(w)
        \/ H_exit(w)
        \/ Worker_next(w)
    \/ \E c \in SConns :
        \/ ClientDial(c)
        \/ ClientSend(c)
    \/ \E k \in Stoppers :
        \/ SD_cas(k)
        \/ SD_listener(k)
        \/ SD_waiter(k)
        \/ CtxExpire(k)
        \/ SD_selectDone(k)
        \/ SD_selectTimeout(k)
        \/ SD_return(k)
        \/ SC_store(k)
        \/ SC_listener(k)
        \/ SC_return(k)
        \/ Close_cas(k)
        \/ Close_closeQueue(k)
        \/ Close_wait(k)

(***************************************************************************)
(* Client (part_007: 148-328): doCall over the ConnPool                    *)
(***************************************************************************)

\* NewClient: no call is under way, nothing was written on any connection
InitClient ==
    /\ cphase = [u \in Users |-> "none"]
    /\ bg = [u \in Users |-> NilConn]
    /\ respChan = [u \in Users |-> "none"]
    /\ orphans = [c \in Conns |-> 0]
    /\ unread = [c \in Conns |-> 0]
    /\ bad = [c \in Conns |-> FALSE]

\* the connections in the idle queue
IdleSet == {idleConns[i] : i \in 1..Len(idleConns)}

\* nothing of an earlier life of connection c is left: no reader, no pending
\* response, no failure
Clean(c) == orphans[c] = 0 /\ unread[c] = 0 /\ ~bad[c] /\ \A u \in Users : bg[u] # c

\* doCall: writer.Write(reqData) and writer.Flush() succeed; the goroutine
\* that runs receiveResponse(conn, call) is started
Cl_writeOk(u) ==
    /\ pc[u] = "leased"
    /\ cphase[u] = "none"
    /\ held[u] # NilConn
    /\ unread[held[u]] < MaxUnread
    /\ unread' = [unread EXCEPT ![held[u]] = @ + 1]
    /\ bg' = [bg EXCEPT ![u] = held[u]]
    /\ cphase' = [cphase EXCEPT ![u] = "wait"]
    /\ Running
    /\ UNCHANGED <<poolVars, gpVars, srvVars, callVars, wireVars, protoVars, batchVars, respChan, orphans, bad>>

\* doCall: the write or the flush fails, maybe after a part of the request
\* went out; doCall returns the error
Cl_writeErr(u) ==
    /\ pc[u] = "leased"
    /\ cphase[u] = "none"
    /\ held[u] # NilConn
    /\ bad' = [bad EXCEPT ![held[u]] = TRUE]
    /\ cphase' = [cphase EXCEPT ![u] = "ret"]
    /\ ret' = <<u, "doCall_write_error">>
    /\ UNCHANGED <<poolVars, gpVars, srvVars, callVars, wireVars, protoVars, batchVars, bg, respChan, orphans, unread>>

\* the goroutine of the current call: receiveResponse reads a response line
\* and sends nil to respChan
Bg_readOk(u) ==
    /\ bg[u] # NilConn
    /\ unread[bg[u]] > 0
    /\ connSt[bg[u]] = "open"
    /\ unread' = [unread EXCEPT ![bg[u]] = @ - 1]
    /\ bg' = [bg EXCEPT ![u] = NilConn]
    /\ respChan' = [respChan EXCEPT ![u] = "ok"]
    /\ Running
    /\ UNCHANGED <<poolVars, gpVars, srvVars, callVars, wireVars, protoVars, batchVars, cphase, orphans, bad>>

\* the goroutine of the current call: the read fails (EOF, reset, a closed
\* connection) and the error goes to respChan
Bg_readErr(u) ==
    /\ bg[u] # NilConn
    /\ bad' = [bad EXCEPT ![bg[u]] = TRUE]
    /\ bg' = [bg EXCEPT ![u] = NilConn]
    /\ respChan' = [respChan EXCEPT ![u] = "err"]
    /\ Running
    /\ UNCHANGED <<poolVars, gpVars, srvVars, callVars, wireVars, protoVars, batchVars, cphase, orphans, unread>>

\* doCall, select: case err := <-respChan; doCall returns err
Cl_selectResp(u) ==
    /\ cphase[u] = "wait"
    /\ respChan[u] # "none"
    /\ respChan' = [respChan EXCEPT ![u] = "none"]
    /\ cphase' = [cphase EXCEPT ![u] = "ret"]
    /\ ret' = <<u, IF respChan[u] = "ok" THEN "doCall_nil" ELSE "doCall_read_error">>
    /\ UNCHANGED <<poolVars, gpVars, srvVars, callVars, wireVars, protoVars, batchVars, bg, orphans, unread, bad>>

\* doCall, select: case <-ctx.Done(); doCall returns ctx.Err() and leaves
\* its goroutine behind, which reads on if it has not finished
Cl_selectCancel(u) ==
    /\ cphase[u] = "wait"
    /\ bg[u] # NilConn => orphans[bg[u]] < MaxOrphans
    /\ IF bg[u] # NilConn
         THEN orphans' = [orphans EXCEPT ![bg[u]] = @ + 1]
         ELSE UNCHANGED orphans
    /\ bg' = [bg EXCEPT ![u] = NilConn]
    /\ respChan' = [respChan EXCEPT ![u] = "none"]
    /\ cphase' = [cphase EXCEPT ![u] = "ret"]
    /\ ret' = <<u, "doCall_ctx_error">>
    /\ UNCHANGED <<poolVars, gpVars, srvVars, callVars, wireVars, protoVars, batchVars, unread, bad>>

\* doCall is over: the deferred Put has returned
Cl_return(u) ==
    /\ pc[u] = "idle"
    /\ cphase[u] = "ret"
    /\ cphase' = [cphase EXCEPT ![u] = "none"]
    /\ Running
    /\ UNCHANGED <<poolVars, gpVars, srvVars, callVars, wireVars, protoVars, batchVars, bg, respChan, orphans, unread, bad>>

\* a goroutine left behind by an abandoned call reads a response line
Orphan_readOk(c) ==
    /\ orphans[c] > 0
    /\ unread[c] > 0
    /\ connSt[c] = "open"
    /\ orphans' = [orphans EXCEPT ![c] = @ - 1]
    /\ unread' = [unread EXCEPT ![c] = @ - 1]
    /\ Running
    /\ UNCHANGED <<poolVars, gpVars, srvVars, callVars, wireVars, protoVars, batchVars, cphase, bg, respChan, bad>>

\* a goroutine left behind by an abandoned call: its read fails
Orphan_readErr(c) ==
    /\ orphans[c] > 0
    /\ orphans' = [orphans EXCEPT ![c] = @ - 1]
    /\ Running
    /\ UNCHANGED <<poolVars, gpVars, srvVars, callVars, wireVars, protoVars, batchVars, cphase, bg, respChan, unread, bad>>

\* a connection the pool has closed is gone once no goroutine reads it: the
\* connection that p.dial() returns next is a new one
Conn_gone(c) ==
    /\ connSt[c] = "closed"
    /\ orphans[c] = 0
    /\ \A u \in Users : bg[u] # c
    /\ unread[c] > 0 \/ bad[c]
    /\ unread' = [unread EXCEPT ![c] = 0]
    /\ bad' = [bad EXCEPT ![c] = FALSE]
    /\ Running
    /\ UNCHANGED <<poolVars, gpVars, srvVars, callVars, wireVars, protoVars, batchVars, cphase, bg, respChan, orphans>>

\* doCall: conn, err := c.connPool.Get() is entered
Cl_get(u) == cphase[u] = "none" /\ Get_checkClosed(u)

\* Get's dial in a client: a new connection, nothing of an earlier one is left
Cl_dialOk(u) == FreshConns # {} /\ Clean(DialConn) /\ Get_dialOk(u)

\* doCall returns: the deferred c.connPool.Put(conn) is entered
Cl_put(u) == cphase[u] = "ret" /\ Put_checkClosed(u)

\* Get and the deferred Put are the pool's steps, taken where doCall calls
\* them
NextClient ==
    \/ \E u \in Users :
        \/ Cl_get(u)
        \/ Get_selectIdle(u)
        \/ Get_testConn(u)
        \/ Get_checkMax(u)
        \/ Get_dialFail(u)
        \/ Cl_dialOk(u)
        \/ Cl_writeOk(u)
        \/ Cl_writeErr(u)
        \/ Bg_readOk(u)
        \/ Bg_readErr(u)
        \/ Cl_selectResp(u)
        \/ Cl_selectCancel(u)
        \/ Cl_put(u)
        \/ Put_select(u)
        \/ Cl_return(u)
    \/ \E c \in Conns :
        \/ Orphan_readOk(c)
        \/ Orphan_readErr(c)
        \/ Conn_gone(c)

(***************************************************************************)
(* Client (part_007: 125-557): Call with its retry loop, doCall's          *)
(* bookkeeping, Go, Batch, Ping and Close.  The connection pool is seen    *)
(* here through the results of Get and Close only.                         *)
(***************************************************************************)

\* ---- error values: the chain that errors.Is / errors.As walk ----
Nil == <<>>
ErrClientClosed == <<"ErrClientClosed">>
ErrNoConnection == <<"ErrNoConnection">>
ErrPoolClosed == <<"ErrPoolClosed">>
ErrPoolExhausted == <<"ErrPoolExhausted">>
IoEOF == <<"io.EOF">>
NetError == <<"net.Error">>
CtxCanceled == <<"context.Canceled">>
CtxDeadlineExceeded == <<"context.DeadlineExceeded">>
RpcError == <<"rerpc.Error">>

\* errors.New(text): a new error that wraps nothing
ErrorsNew(text) == <<text>>
\* fmt.Errorf("text: %w", e): wraps e, whose chain stays visible
Errorf_w(text, e) == <<text>> \o e
\* fmt.Errorf("%w: %v", w, v): wraps w only; v is formatted into the text
Errorf_w_v(w, v) == <<"fmt.wrapError">> \o w

\* errors.Is(e, target) for a sentinel target
ErrorsIs(e, target) == \E i \in 1..Len(e) : e[i] = target[1]
\* errors.As(e, &netErr) with netErr of type net.Error
ErrorsAsNetError(e) == \E i \in 1..Len(e) : e[i] = NetError[1]

\* a shouldRetry that retries every error
shouldRetryAlways(e) == e # Nil

\* Client.shouldRetry
shouldRetry(e) ==
    IF e = Nil THEN FALSE
    ELSE IF ErrorsIs(e, ErrClientClosed) THEN FALSE
    ELSE IF ErrorsIs(e, CtxCanceled) \/ ErrorsIs(e, CtxDeadlineExceeded) THEN FALSE
    ELSE IF ErrorsIs(e, ErrPoolExhausted) THEN FALSE
    ELSE IF ErrorsAsNetError(e) THEN TRUE
    ELSE IF ErrorsIs(e, ErrNoConnection) \/ ErrorsIs(e, IoEOF) THEN TRUE
    ELSE FALSE

\* what receiveResponse makes of the outcome of its read
EofError == ErrorsNew("connection closed by server")
ReadError == Errorf_w("failed to read response", NetError)
\* what doCall makes of a failed write
WriteError == Errorf_w("failed to write request", NetError)

\* (mutant) a ctx whose Done channel is never seen ready
CtxIsDoneNever(st) == FALSE

\* <-ctx.Done() is ready for a context in state st
CtxIsDone(st) == st # "live"

\* ctx.Err() of a context in state st
CtxErr(st) == IF st = "deadline" THEN CtxDeadlineExceeded ELSE CtxCanceled

RECURSIVE Shl(_, _)
\* x << n
Shl(x, n) == IF n = 0 THEN x ELSE 2 * Shl(x, n - 1)

\* (mutant) a back-off that does not grow
BackoffDelayFlat(a) == retryDelay

\* Call's back-off before the retry that follows attempt number a
BackoffDelay(a) == retryDelay * Shl(1, a)

\* (mutant) a sequence counter that is read but not advanced
NextSeqValueStuck(n) == IF n = 0 THEN 1 ELSE n

\* Client.nextSeq: atomic.AddUint64(&c.seq, 1)
NextSeqValue(n) == n + 1

\* (mutant) a closed flag that no operation sees
isClosedNever == FALSE

\* Client.isClosed: atomic.LoadInt32(&c.closed) == 1
isClosed == cClosed = 1

NoCRet == <<0, Nil>>

InitCall ==
    /\ cClosed = 0
    /\ seq = 0
    /\ pending = {}
    /\ maxRetries = MaxRetriesBound
    /\ apc = [u \in Callers |-> "idle"]
    /\ kind = [u \in Callers |-> "Call"]
    /\ attempt = [u \in Callers |-> 0]
    /\ aseq = [u \in Callers |-> 0]
    /\ aerr = [u \in Callers |-> Nil]
    /\ gotErr = [u \in Callers |-> Nil]
    /\ ctxSt = [u \in Callers |-> "live"]
    /\ callErr = [u \in Callers |-> Nil]
    /\ callDone = [u \in Callers |-> 0]
    /\ heldErr = [u \in Callers |-> Nil]
    /\ heldDone = [u \in Callers |-> 0]
    /\ delay = [u \in Callers |-> 0]
    /\ tries = [u \in Callers |-> 0]
    /\ did = [u \in Callers |-> {}]
    /\ late = [u \in Callers |-> FALSE]
    /\ preDone = [u \in Callers |-> FALSE]
    /\ xpc = [z \in XClosers |-> "idle"]
    /\ faults = 0
    /\ cret = NoCRet

\* the callers that hold a leased connection
Leasing == {u \in Callers : apc[u] \in {"wait", "pingput"}}

\* Client.Close has returned at least once
ClientCloseReturned == \E z \in XClosers : xpc[z] = "returned"

\* no step of this frame returns from an operation of the Client
CRunning == cret' = NoCRet

\* caller u is between two operations: nothing of the last one is left
Idle(u) ==
    /\ apc' = [apc EXCEPT ![u] = "idle"]
    /\ kind' = [kind EXCEPT ![u] = "Call"]
    /\ attempt' = [attempt EXCEPT ![u] = 0]
    /\ aseq' = [aseq EXCEPT ![u] = 0]
    /\ aerr' = [aerr EXCEPT ![u] = Nil]
    /\ gotErr' = [gotErr EXCEPT ![u] = Nil]
    /\ ctxSt' = [ctxSt EXCEPT ![u] = "live"]
    /\ callErr' = [callErr EXCEPT ![u] = Nil]
    /\ callDone' = [callDone EXCEPT ![u] = 0]
    /\ heldErr' = [heldErr EXCEPT ![u] = Nil]
    /\ heldDone' = [heldDone EXCEPT ![u] = 0]
    /\ delay' = [delay EXCEPT ![u] = 0]
    /\ tries' = [tries EXCEPT ![u] = 0]
    /\ did' = [did EXCEPT ![u] = {}]
    /\ late' = [late EXCEPT ![u] = FALSE]
    /\ preDone' = [preDone EXCEPT ![u] = FALSE]

\* caller u's operation goes on at next
Continue(u, next) ==
    /\ apc' = [apc EXCEPT ![u] = next]
    /\ UNCHANGED <<kind, attempt, aseq, aerr, gotErr, ctxSt, callErr, callDone,
                   heldErr, heldDone, delay, tries, did, late, preDone>>
    /\ CRunning

\* Call returns e: to its caller, or to the goroutine of Go or Batch that
\* invoked it
CallReturn(u, e) ==
    IF kind[u] = "Call"
    THEN Idle(u) /\ cret' = <<u, e>>
    ELSE /\ apc' = [apc EXCEPT ![u] = "finish"]
         /\ aerr' = [aerr EXCEPT ![u] = e]
         /\ UNCHANGED <<kind, attempt, aseq, gotErr, ctxSt, callErr, callDone,
                        heldErr, heldDone, delay, tries, did, late, preDone>>
         /\ CRunning

\* an operation of kind k is invoked by caller u with a ctx in state st and
\* proceeds to next
Start(u, k, st, next) ==
    /\ apc' = [apc EXCEPT ![u] = next]
    /\ kind' = [kind EXCEPT ![u] = k]
    /\ ctxSt' = [ctxSt EXCEPT ![u] = st]
    /\ preDone' = [preDone EXCEPT ![u] = st # "live"]
    /\ late' = [late EXCEPT ![u] = ClientCloseReturned]
    /\ CRunning
    /\ UNCHANGED <<notCall, cClosed, seq, pending, maxRetries, attempt, aseq,
                 aerr, gotErr, callErr, callDone, heldErr, heldDone, delay,
                 tries, did, xpc, faults>>

\* an operation of kind k of caller u that returns e at its first check
ReturnAtEntry(u, k, e) ==
    /\ kind' = [kind EXCEPT ![u] = k]
    /\ cret' = <<u, e>>
    /\ UNCHANGED <<notCall, cClosed, seq, pending, maxRetries, apc, attempt,
                 aseq, aerr, gotErr, ctxSt, callErr, callDone, heldErr,
                 heldDone, delay, tries, did, late, preDone, xpc, faults>>

\* Client.Call is invoked with a context in state st
Call_enter(u, st) ==
    /\ u \in CallIssuers
    /\ apc[u] = "idle"
    /\ seq < MaxSeq
    /\ Start(u, "Call", st, "enter")

\* Client.Go: the Call record its issuer holds is created and the goroutine
\* that will run Call is started; its ctx is a fresh 30 s timeout
Go_issue(u) ==
    /\ u \in GoIssuers
    /\ apc[u] = "idle"
    /\ seq < MaxSeq
    /\ Start(u, "Go", "live", "enter")

\* Client.GoWithContext with a ctx in state st: as Go, but the goroutine
\* runs Call with the caller's ctx
GoWithContext_issue(u, st) ==
    /\ u \in GoIssuers
    /\ apc[u] = "idle"
    /\ seq < MaxSeq
    /\ Start(u, "GoWithContext", st, "enter")

\* Client.Batch with n calls (n = 0 or 1): the length check, then the load
\* of c.closed, then the goroutine that runs Call
Batch_enter(u, n) ==
    /\ u \in BatchIssuers
    /\ apc[u] = "idle"
    /\ seq < MaxSeq
    /\ IF n = 0
       THEN ReturnAtEntry(u, "EmptyBatch", Nil)
       ELSE IF isClosed
            THEN ReturnAtEntry(u, "Batch", ErrClientClosed)
            ELSE Start(u, "Batch", "live", "enter")

\* Call: the load of c.closed and the validation of the arguments
Call_check(u) ==
    /\ apc[u] = "enter"
    /\ IF isClosed
       THEN CallReturn(u, ErrClientClosed)
       ELSE \E valid \in BOOLEAN :
                IF valid
                THEN Continue(u, "loop")
                ELSE CallReturn(u, ErrorsNew("service method is required"))
    /\ UNCHANGED <<notCall, cClosed, seq, pending, maxRetries, xpc, faults>>

\* the outcomes of ConnPool.Get for a caller at this moment
GetOutcomes ==
    IF closed = 1 THEN {ErrPoolClosed}
    ELSE IF maxActive > 0 /\ Cardinality(Leasing) >= maxActive
         THEN {ErrPoolExhausted}
         ELSE {Nil} \cup (IF faults < MaxFaults THEN {NetError} ELSE {})

\* Call: the loop condition and the non-blocking check of ctx.Done(); then
\* doCall: seq := c.nextSeq(); call.seq = seq; c.pending[seq] = call under
\* c.mu (the atomic add commutes with every step of another goroutine but
\* its own atomic add, so the three are one step)
Call_attempt(u) ==
    /\ apc[u] = "loop"
    /\ IF CtxIsDone(ctxSt[u])
       THEN /\ CallReturn(u, CtxErr(ctxSt[u]))
            /\ UNCHANGED <<seq, pending>>
       ELSE /\ seq' = NextSeqValue(seq)
            /\ pending' = pending \cup {<<seq', u>>}
            /\ apc' = [apc EXCEPT ![u] = "get"]
            /\ aseq' = [aseq EXCEPT ![u] = seq']
            /\ tries' = [tries EXCEPT ![u] = @ + 1]
            /\ did' = [did EXCEPT ![u] = @ \cup {"seq", "pending"}]
            /\ UNCHANGED <<kind, attempt, aerr, gotErr, ctxSt, callErr, callDone,
                           heldErr, heldDone, delay, late, preDone>>
            /\ CRunning
    /\ UNCHANGED <<notCall, cClosed, maxRetries, xpc, faults>>

\* doCall: conn, err := c.connPool.Get(); on success the request is
\* marshalled, written and flushed; when the write fails doCall returns and
\* its deferred Put gives the connection back
Do_get(u) ==
    /\ apc[u] = "get"
    /\ did' = [did EXCEPT ![u] = @ \cup {"lease"}]
    /\ \E g \in GetOutcomes :
        /\ gotErr' = [gotErr EXCEPT ![u] = g]
        /\ IF g # Nil
           THEN /\ apc' = [apc EXCEPT ![u] = "unreg"]
                /\ aerr' = [aerr EXCEPT ![u] = Errorf_w_v(ErrNoConnection, g)]
                /\ faults' = faults + (IF g = NetError THEN 1 ELSE 0)
           ELSE \E e \in {Nil} \cup (IF faults < MaxFaults THEN {WriteError} ELSE {}) :
                /\ aerr' = [aerr EXCEPT ![u] = e]
                /\ faults' = faults + (IF e = Nil THEN 0 ELSE 1)
                /\ apc' = [apc EXCEPT ![u] = IF e = Nil THEN "wait" ELSE "unreg"]
    /\ CRunning
    /\ UNCHANGED <<notCall, cClosed, seq, pending, maxRetries, kind, attempt,
                 aseq, ctxSt, callErr, callDone, heldErr, heldDone, delay,
                 tries, late, preDone, xpc>>

\* (mutant) a doCall that leaves its record in c.pending
UnregisterMissing(pend, s, u) == pend

\* doCall's deferred delete(c.pending, seq)
Unregister(pend, s, u) == pend \ {<<s, u>>}

\* what receiveResponse can return
RecvOutcomes == {Nil, EofError, ReadError}

\* doCall's select, case err := <-respChan: receiveResponse has returned e,
\* having stored an error object of the response in call.Error; doCall
\* returns and its deferred Put gives the connection back
Do_selectResp(u) ==
    /\ apc[u] = "wait"
    /\ \E e \in RecvOutcomes, rpcErr \in BOOLEAN :
        /\ rpcErr => e = Nil
        /\ e # Nil => faults < MaxFaults
        /\ faults' = faults + (IF e = Nil THEN 0 ELSE 1)
        /\ aerr' = [aerr EXCEPT ![u] = e]
        /\ callErr' = [callErr EXCEPT ![u] = IF rpcErr THEN RpcError ELSE @]
    /\ apc' = [apc EXCEPT ![u] = "unreg"]
    /\ CRunning
    /\ UNCHANGED <<notCall, cClosed, seq, pending, maxRetries, kind, attempt,
                 aseq, gotErr, ctxSt, callDone, heldErr, heldDone, delay,
                 tries, did, late, preDone, xpc>>

\* doCall's select, case <-ctx.Done(); the deferred Put gives the connection
\* back
Do_selectCtx(u) ==
    /\ apc[u] = "wait"
    /\ CtxIsDone(ctxSt[u])
    /\ aerr' = [aerr EXCEPT ![u] = CtxErr(ctxSt[u])]
    /\ apc' = [apc EXCEPT ![u] = "unreg"]
    /\ CRunning
    /\ UNCHANGED <<notCall, cClosed, seq, pending, maxRetries, kind, attempt,
                 aseq, gotErr, ctxSt, callErr, callDone, heldErr, heldDone,
                 delay, tries, did, late, preDone, xpc, faults>>

\* doCall's deferred delete(c.pending, seq) under c.mu; then Call, for a
\* doCall that returned nil: return call.Error
Call_success(u) ==
    /\ apc[u] = "unreg"
    /\ aerr[u] = Nil
    /\ pending' = Unregister(pending, aseq[u], u)
    /\ CallReturn(u, callErr[u])
    /\ UNCHANGED <<notCall, cClosed, seq, maxRetries, xpc, faults>>

\* the deferred delete; then Call, for an error that shouldRetry rejects
Call_noRetry(u) ==
    /\ apc[u] = "unreg"
    /\ aerr[u] # Nil
    /\ ~shouldRetry(aerr[u])
    /\ pending' = Unregister(pending, aseq[u], u)
    /\ CallReturn(u, aerr[u])
    /\ UNCHANGED <<notCall, cClosed, seq, maxRetries, xpc, faults>>

\* the deferred delete; then Call, for a retryable error with
\* attempt < maxRetries: the delay is computed and the select on
\* time.After(delay) and ctx.Done() begins
Call_backoff(u) ==
    /\ apc[u] = "unreg"
    /\ aerr[u] # Nil
    /\ shouldRetry(aerr[u])
    /\ attempt[u] < maxRetries
    /\ pending' = Unregister(pending, aseq[u], u)
    /\ delay' = [delay EXCEPT ![u] = BackoffDelay(attempt[u])]
    /\ gotErr' = [gotErr EXCEPT ![u] = Nil]
    /\ apc' = [apc EXCEPT ![u] = "backoff"]
    /\ CRunning
    /\ UNCHANGED <<notCall, cClosed, seq, maxRetries, kind, attempt, aseq,
                 aerr, ctxSt, callErr, callDone, heldErr, heldDone, tries,
                 did, late, preDone, xpc, faults>>

\* the deferred delete; then Call, for a retryable error on the last
\* attempt: no wait, attempt++ ends the loop and Call returns
Call_lastAttempt(u) ==
    /\ apc[u] = "unreg"
    /\ aerr[u] # Nil
    /\ shouldRetry(aerr[u])
    /\ ~(attempt[u] < maxRetries)
    /\ pending' = Unregister(pending, aseq[u], u)
    /\ CallReturn(u, Errorf_w("call failed after retries", aerr[u]))
    /\ UNCHANGED <<notCall, cClosed, seq, maxRetries, xpc, faults>>

\* Call's back-off select, case <-time.After(delay); then attempt++
Call_timer(u) ==
    /\ apc[u] = "backoff"
    /\ attempt' = [attempt EXCEPT ![u] = @ + 1]
    /\ apc' = [apc EXCEPT ![u] = "loop"]
    /\ CRunning
    /\ UNCHANGED <<notCall, cClosed, seq, pending, maxRetries, kind, aseq,
                 aerr, gotErr, ctxSt, callErr, callDone, heldErr, heldDone,
                 delay, tries, did, late, preDone, xpc, faults>>

\* Call's back-off select, case <-ctx.Done()
Call_backoffCtx(u) ==
    /\ apc[u] = "backoff"
    /\ CtxIsDone(ctxSt[u])
    /\ CallReturn(u, CtxErr(ctxSt[u]))
    /\ UNCHANGED <<notCall, cClosed, seq, pending, maxRetries, xpc, faults>>

\* the goroutine of Go or GoWithContext after Call returned: the error goes into the record
\* the issuer holds unless one is there, and the record is sent on Done
Go_finish(u) ==
    /\ apc[u] = "finish"
    /\ kind[u] \in {"Go", "GoWithContext"}
    /\ heldErr' = [heldErr EXCEPT ![u] = IF aerr[u] # Nil /\ @ = Nil THEN aerr[u] ELSE @]
    /\ heldDone' = [heldDone EXCEPT ![u] = 1]
    /\ apc' = [apc EXCEPT ![u] = "issued"]
    /\ CRunning
    /\ UNCHANGED <<notCall, cClosed, seq, pending, maxRetries, kind, attempt,
                 aseq, aerr, gotErr, ctxSt, callErr, callDone, delay, tries,
                 did, late, preDone, xpc, faults>>

\* the issuer of Go receives its record from Done and drops it
Go_receive(u) ==
    /\ apc[u] = "issued"
    /\ Idle(u)
    /\ CRunning
    /\ UNCHANGED <<notCall, cClosed, seq, pending, maxRetries, xpc, faults>>

\* the goroutine of Batch after Call returned, wg.Wait() and Batch's return
\* of the first error
Batch_finish(u) ==
    /\ apc[u] = "finish"
    /\ kind[u] = "Batch"
    /\ Idle(u)
    /\ cret' = <<u, aerr[u]>>
    /\ UNCHANGED <<notCall, cClosed, seq, pending, maxRetries, xpc, faults>>

\* Client.Ping: the load of c.closed
Ping_enter(u) ==
    /\ u \in PingIssuers
    /\ apc[u] = "idle"
    /\ IF isClosed
       THEN ReturnAtEntry(u, "Ping", ErrClientClosed)
       ELSE Start(u, "Ping", "live", "ping")

\* ConnPool.Ping: conn, err := p.Get()
Ping_get(u) ==
    /\ apc[u] = "ping"
    /\ \E g \in GetOutcomes :
        /\ IF g = Nil
           THEN /\ apc' = [apc EXCEPT ![u] = "pingput"]
                /\ did' = [did EXCEPT ![u] = @ \cup {"lease"}]
                /\ UNCHANGED <<kind, attempt, aseq, aerr, gotErr, ctxSt, callErr,
                               callDone, heldErr, heldDone, delay, tries, late,
                               preDone>>
                /\ CRunning
           ELSE Idle(u) /\ cret' = <<u, g>>
    /\ UNCHANGED <<notCall, cClosed, seq, pending, maxRetries, xpc, faults>>

\* ConnPool.Ping: return p.Put(conn)
Ping_put(u) ==
    /\ apc[u] = "pingput"
    /\ Idle(u)
    /\ cret' = <<u, IF closed = 1 THEN ErrPoolClosed ELSE Nil>>
    /\ UNCHANGED <<notCall, cClosed, seq, pending, maxRetries, xpc, faults>>

\* the ctx of a running Call is cancelled or its deadline passes
CtxDoneFires(u, st) ==
    /\ apc[u] \notin {"idle", "finish", "issued", "ping", "pingput"}
    /\ ctxSt[u] = "live"
    /\ kind[u] \in {"Call", "GoWithContext"}
    /\ st = "canceled"
    /\ ctxSt' = [ctxSt EXCEPT ![u] = st]
    /\ CRunning
    /\ UNCHANGED <<notCall, cClosed, seq, pending, maxRetries, apc, kind,
                 attempt, aseq, aerr, gotErr, callErr, callDone, heldErr,
                 heldDone, delay, tries, did, late, preDone, xpc, faults>>

\* the 30 s of the ctx that Go made for its Call have passed
Go_deadline(u) ==
    /\ kind[u] = "Go"
    /\ apc[u] \notin {"idle", "finish", "issued"}
    /\ ctxSt[u] = "live"
    /\ ctxSt' = [ctxSt EXCEPT ![u] = "deadline"]
    /\ CRunning
    /\ UNCHANGED <<notCall, cClosed, seq, pending, maxRetries, apc, kind,
                 attempt, aseq, aerr, gotErr, callErr, callDone, heldErr,
                 heldDone, delay, tries, did, late, preDone, xpc, faults>>

\* the callers whose Call records are in c.pending
Registered == {p[2] : p \in pending}

\* Client.Close, invoked for the first time or once more after it returned:
\* the compare-and-swap of c.closed
X_cas(z) ==
    /\ xpc[z] \in {"idle", "returned"}
    /\ IF cClosed = 1
       THEN /\ xpc' = [xpc EXCEPT ![z] = "returned"]
            /\ cret' = <<z, Nil>>
            /\ cClosed' = cClosed
       ELSE /\ cClosed' = 1
            /\ xpc' = [xpc EXCEPT ![z] = "pool"]
            /\ CRunning
    /\ UNCHANGED <<notCall, seq, pending, maxRetries, apc, kind, attempt,
                 aseq, aerr, gotErr, ctxSt, callErr, callDone, heldErr,
                 heldDone, delay, tries, did, late, preDone, faults>>

\* Client.Close: c.connPool.Close()
X_poolClose(z) ==
    /\ xpc[z] = "pool"
    /\ closed' = 1
    /\ xpc' = [xpc EXCEPT ![z] = "sweep"]
    /\ CRunning
    /\ UNCHANGED <<
                 poolButClosed, ret, gpVars, srvVars, cliVars, wireVars, protoVars, batchVars,
                 cClosed, seq, pending, maxRetries, apc, kind, attempt, aseq,
                 aerr, gotErr, ctxSt, callErr, callDone, heldErr, heldDone,
                 delay, tries, did, late, preDone, faults>>

\* Client.Close: under c.mu every pending call gets ErrClientClosed and a
\* non-blocking send on its Done, and is deleted; then Close returns nil
X_sweep(z) ==
    /\ xpc[z] = "sweep"
    /\ callErr' = [u \in Callers |->
                       IF u \in Registered THEN ErrClientClosed ELSE callErr[u]]
    /\ callDone' = [u \in Callers |-> IF u \in Registered THEN 1 ELSE callDone[u]]
    /\ pending' = {}
    /\ xpc' = [xpc EXCEPT ![z] = "returned"]
    /\ cret' = <<z, Nil>>
    /\ UNCHANGED <<notCall, cClosed, seq, maxRetries, apc, kind, attempt,
                 aseq, aerr, gotErr, ctxSt, heldErr, heldDone, delay, tries,
                 did, late, preDone, faults>>

\* the steps of the goroutine that runs caller u's Call
CallStep(u) ==
    \/ Call_check(u)
    \/ Call_attempt(u)
    \/ Do_get(u)
    \/ Do_selectCtx(u)
    \/ Call_success(u)
    \/ Call_noRetry(u)
    \/ Call_backoff(u)
    \/ Call_lastAttempt(u)
    \/ Call_timer(u)
    \/ Call_backoffCtx(u)
    \/ Go_finish(u)
    \/ Batch_finish(u)

NextCall ==
    \/ \E u \in Callers :
        \/ \E st \in {"live", "deadline"} : Call_enter(u, st)
        \/ Go_issue(u)
        \/ \E n \in {0, 1} : Batch_enter(u, n)
        \/ Call_check(u)
        \/ Call_attempt(u)
        \/ Do_get(u)
        \/ Do_selectResp(u)
        \/ Do_selectCtx(u)
        \/ Call_success(u)
        \/ Call_noRetry(u)
        \/ Call_backoff(u)
        \/ Call_lastAttempt(u)
        \/ Call_timer(u)
        \/ Call_backoffCtx(u)
        \/ Go_finish(u)
        \/ Go_receive(u)
        \/ Batch_finish(u)
        \/ Ping_enter(u)
        \/ Ping_get(u)
        \/ Ping_put(u)
        \/ CtxDoneFires(u, "canceled")
    \/ \E z \in XClosers :
        \/ X_cas(z)
        \/ X_poolClose(z)
        \/ X_sweep(z)

\* the Client used through Go and GoWithContext only, with the timeout of
\* Go's ctx, and Close
NextGo ==
    \/ \E u \in Callers :
        \/ Go_issue(u)
        \/ \E st \in {"live", "deadline"} : GoWithContext_issue(u, st)
        \/ Call_check(u)
        \/ Call_attempt(u)
        \/ Do_get(u)
        \/ Do_selectResp(u)
        \/ Do_selectCtx(u)
        \/ Call_success(u)
        \/ Call_noRetry(u)
        \/ Call_backoff(u)
        \/ Call_lastAttempt(u)
        \/ Call_timer(u)
        \/ Call_backoffCtx(u)
        \/ Go_finish(u)
        \/ Go_receive(u)
        \/ CtxDoneFires(u, "canceled")
        \/ Go_deadline(u)
    \/ \E z \in XClosers :
        \/ X_cas(z)
        \/ X_poolClose(z)
        \/ X_sweep(z)

(***************************************************************************)
(* One Call each on the wire (part_007: 213-328, part_004: 126-217).       *)
(* Every call has its identity: its seq, its arguments and its reply sink. *)
(* A response travels as the bytes of `{"jsonrpc":..,"result":R,"id":N}`   *)
(* and a newline; a Read of the connection returns a prefix of what has    *)
(* arrived, so the bytes are taken here in two pieces per response: the    *)
(* piece that carries the result and the piece that carries the id and the *)
(* newline.  The network loses and reorders nothing, and the pool has a    *)
(* connection for every caller, so the only failures are a cancelled ctx   *)
(* and what receiveResponse rejects; neither is retried.                   *)
(***************************************************************************)

WireCallers == {1, 2}
WireConns == {1, 2}
ArgValues == {1, 2}
CallIds == 1..MaxCalls

\* the registered handler: the reply it computes from the arguments
Handler(a) == a + 10

\* the two pieces of Server.encodeSuccessResponse's bytes
ResultPiece(r) == <<"result", r>>
IdPiece(n) == <<"id", n>>

InitWire ==
    /\ eSeq = 0
    /\ ePc = [u \in WireCallers |-> "idle"]
    /\ eId = [u \in WireCallers |-> 0]
    /\ eConn = [u \in WireCallers |-> 0]
    /\ eCtx = [u \in WireCallers |-> FALSE]
    /\ eArgs = [n \in CallIds |-> 0]
    /\ eSink = [n \in CallIds |-> 0]
    /\ eHandled = [n \in CallIds |-> 0]
    /\ eReq = [c \in WireConns |-> <<>>]
    /\ eStream = [c \in WireConns |-> <<>>]
    /\ eFree = WireConns
    /\ eRd = [n \in CallIds |-> "none"]
    /\ eRdConn = [n \in CallIds |-> 0]
    /\ eBuf = [n \in CallIds |-> <<>>]
    /\ eRes = [n \in CallIds |-> "none"]
    /\ eRet = NoRet

\* Call with a live ctx up to doCall's select: nextSeq (214), ConnPool.Get
\* (231), the request written and flushed (263-269), the goroutine of
\* receiveResponse started (272-275)
E_call(u, a) ==
    /\ ePc[u] = "idle"
    /\ eSeq < MaxCalls
    /\ eFree # {}
    /\ LET n == NextSeqValue(eSeq) IN
       \E c \in eFree :
          /\ eSeq' = n
          /\ ePc' = [ePc EXCEPT ![u] = "wait"]
          /\ eId' = [eId EXCEPT ![u] = n]
          /\ eConn' = [eConn EXCEPT ![u] = c]
          /\ eArgs' = [eArgs EXCEPT ![n] = a]
          /\ eFree' = eFree \ {c}
          /\ eReq' = [eReq EXCEPT ![c] = Append(@, <<n, a>>)]
          /\ eRd' = [eRd EXCEPT ![n] = "reading"]
          /\ eRdConn' = [eRdConn EXCEPT ![n] = c]
    /\ eRet' = NoRet
    /\ UNCHANGED <<eCtx, eSink, eHandled, eStream, eBuf, eRes>>
    /\ UNCHANGED notWire

\* the ctx of a waiting Call is cancelled or its deadline passes
E_ctxDone(u) ==
    /\ ePc[u] = "wait"
    /\ ~eCtx[u]
    /\ eCtx' = [eCtx EXCEPT ![u] = TRUE]
    /\ eRet' = NoRet
    /\ UNCHANGED <<eSeq, ePc, eId, eConn, eArgs, eSink, eHandled, eReq, eStream,
                   eFree, eRd, eRdConn, eBuf, eRes>>
    /\ UNCHANGED notWire

\* doCall returns: the deferred Put (237) gives the connection back to the
\* pool whatever the goroutine of receiveResponse is doing
E_return(u, outcome) ==
    /\ eRet' = <<eId[u], outcome>>
    /\ ePc' = [ePc EXCEPT ![u] = "idle"]
    /\ eId' = [eId EXCEPT ![u] = 0]
    /\ eConn' = [eConn EXCEPT ![u] = 0]
    /\ eCtx' = [eCtx EXCEPT ![u] = FALSE]
    /\ eFree' = eFree \cup {eConn[u]}
    /\ UNCHANGED <<eSeq, eArgs, eSink, eHandled, eReq, eStream, eRd, eRdConn,
                   eBuf>>
    /\ UNCHANGED notWire

\* doCall's select (278-283), case <-ctx.Done()
E_selectCtx(u) ==
    /\ ePc[u] = "wait"
    /\ eCtx[u]
    /\ E_return(u, "ctx")
    /\ UNCHANGED eRes

\* doCall's select, case err := <-respChan; Call returns it (180-184)
E_selectResp(u) ==
    /\ ePc[u] = "wait"
    /\ eRes[eId[u]] # "none"
    /\ E_return(u, eRes[eId[u]])
    /\ eRes' = [eRes EXCEPT ![eId[u]] = "none"]

\* Server.handleConn, one round of its loop: the next request of the
\* connection is read, the handler runs on its arguments, the response with
\* the request's id is written and flushed
handleConn(c) ==
    /\ eReq[c] # <<>>
    /\ LET n == Head(eReq[c])[1]
           a == Head(eReq[c])[2]
       IN  /\ eHandled' = [eHandled EXCEPT ![n] = @ + 1]
           /\ eStream' = [eStream EXCEPT
                            ![c] = @ \o <<ResultPiece(Handler(a)), IdPiece(n)>>]
    /\ eReq' = [eReq EXCEPT ![c] = Tail(@)]
    /\ eRet' = NoRet
    /\ UNCHANGED <<eSeq, ePc, eId, eConn, eCtx, eArgs, eSink, eFree, eRd, eRdConn,
                   eBuf, eRes>>
    /\ UNCHANGED notWire

\* bufio.Reader.ReadBytes('\n'): the buffer holds a newline
HasNewline(b) == \E i \in 1..Len(b) : b[i][1] = "id"

\* ... and the line is what precedes the first one, the newline included
FirstLine(b) ==
    SubSeq(b, 1, CHOOSE i \in 1..Len(b) :
                    b[i][1] = "id" /\ \A j \in 1..(i - 1) : b[j][1] # "id")

\* JSONCodec.DecodeResponse: <<id, result>> of a line that is one JSON
\* object, <<0, 0>> for the error it returns otherwise
DecodeResponse(line) ==
    IF Len(line) = 2 /\ line[1][1] = "result" /\ line[2][1] = "id"
    THEN <<line[2][2], line[1][2]>>
    ELSE <<0, 0>>

\* receiveResponse's check of the response ID against call.seq
IdMatches(respID, callSeq) == respID = callSeq

\* receiveResponse (287-328) of call n, one Read of the connection: it
\* returns some of the bytes that have arrived; when the buffer holds a line
\* the response is decoded, its ID checked, the result unmarshalled into
\* call.Reply and the error sent to respChan.  Whatever the bufio.Reader
\* holds beyond the line is dropped with it.
receiveResponse(n) ==
    /\ eRd[n] = "reading"
    /\ LET c == eRdConn[n] IN
       /\ eStream[c] # <<>>
       /\ \E k \in 1..Len(eStream[c]) :
            LET b == eBuf[n] \o SubSeq(eStream[c], 1, k)
                d == DecodeResponse(FirstLine(b))
            IN  /\ eStream' = [eStream EXCEPT
                                 ![c] = SubSeq(@, k + 1, Len(@))]
                /\ IF HasNewline(b)
                   THEN /\ eRd' = [eRd EXCEPT ![n] = "done"]
                        /\ eBuf' = [eBuf EXCEPT ![n] = <<>>]
                        /\ IF d[1] # 0 /\ IdMatches(d[1], n)
                           THEN /\ eSink' = [eSink EXCEPT ![n] = d[2]]
                                /\ eRes' = [eRes EXCEPT ![n] = "ok"]
                           ELSE /\ eRes' = [eRes EXCEPT ![n] = "err"]
                                /\ UNCHANGED eSink
                   ELSE /\ eBuf' = [eBuf EXCEPT ![n] = b]
                        /\ UNCHANGED <<eRd, eRes, eSink>>
    /\ eRet' = NoRet
    /\ UNCHANGED <<eSeq, ePc, eId, eConn, eCtx, eArgs, eHandled, eReq, eFree,
                   eRdConn>>
    /\ UNCHANGED notWire

NextE2E ==
    \/ \E u \in WireCallers : \E a \in ArgValues : E_call(u, a)
    \/ \E u \in WireCallers : E_ctxDone(u)
    \/ \E u \in WireCallers : E_selectCtx(u)
    \/ \E u \in WireCallers : E_selectResp(u)
    \/ \E c \in WireConns : handleConn(c)
    \/ \E n \in CallIds : receiveResponse(n)

(***************************************************************************)
(* Messages: JSONCodec (part_001: 77-176), Server.processRequest with      *)
(* parseMethod (part_004: 182-287), ServiceRegistry.Call (registry.go:     *)
(* 179-246).  A line is taken by its JSON content: whether it parses, its  *)
(* version tag, its method string, its params, its id.  What the handler   *)
(* does with the arguments of a line (returns a reply, returns an error,   *)
(* panics) is an input.  One connection loop reads the lines of hQueue; a  *)
(* client decodes response lines; the registry is also called directly.    *)
(***************************************************************************)

\* the characters of the method strings
Chars == {"A", "G", "."}
Strings == UNION {[1..k -> Chars] : k \in 0..MaxNameLen}

\* the registry after Register: one service with one eligible method
Services == {<<"A">>}
MethodsOf(s) == {<<"G">>}

\* identifiers: null, a string, and the integers hi * 2^53 + lo
IdNull == <<"null">>
Ids == {IdNull, <<"str">>, <<"num", 0, 1>>, <<"num", 1, 1>>}

\* (mutant) a number of arbitrary precision
Float64Exact(n) == n

\* strconv.ParseFloat(s, 64) of an integer: 53 bits of mantissa, so above
\* 2^53 only the even integers exist and the others round to even
Float64(n) ==
    IF n[2] = 0 \/ n[3] % 2 = 0 THEN n
    ELSE IF ((n[3] - 1) \div 2) % 2 = 0 THEN <<"num", n[2], n[3] - 1>>
    ELSE <<"num", n[2], n[3] + 1>>

\* json.Unmarshal of the "id" member into interface{}, and json.Marshal of
\* that value
DecodeId(i) == IF i[1] = "num" THEN Float64(i) ELSE i

Behaviours == {"reply", "error", "panic"}
RequestLines ==
    [empty : {FALSE}, json : {TRUE}, ver : {"2.0", "1.0"}, method : Strings,
     params : {"none", "good", "bad"}, does : Behaviours, id : Ids]
    \cup [empty : {FALSE}, json : {FALSE}, ver : {"1.0"}, method : {<<>>},
          params : {"none"}, does : {"reply"}, id : {IdNull}]
ResponseLines ==
    [empty : {FALSE}, json : {TRUE}, ver : {"2.0", "1.0"}, result : {"absent", "null", "value"},
     error : {"absent", "null", "object"}, id : Ids]
    \cup [empty : BOOLEAN, json : {FALSE}, ver : {"1.0"}, result : {"absent"},
          error : {"absent"}, id : {IdNull}]

NoLine == [empty |-> TRUE, json |-> FALSE, ver |-> "", method |-> <<>>, params |-> "none",
           does |-> "reply", id |-> IdNull]
NoRLine == [empty |-> TRUE, json |-> FALSE, ver |-> "", result |-> "absent", error |-> "absent",
            id |-> IdNull]
NoError == <<"", "">>
NoOutcome == [error |-> NoError, result |-> "none", invoked |-> 0]
NoDec == [error |-> "none", result |-> FALSE, rpcError |-> FALSE]
NoGIn == <<<<>>, <<>>, "none", "reply">>

NewParseError == <<"Parse", "json">>
NewInvalidRequestError(d) == <<"InvalidRequest", d>>
NewMethodNotFoundError(d) == <<"MethodNotFound", d>>
NewInvalidParamsError == <<"InvalidParams", "failed to unmarshal args">>
NewInternalError(d) == <<"Internal", d>>

\* JSONCodec.DecodeRequest: the error, or NoError and the Request
DecodeRequest(l) ==
    IF l.empty
    THEN [error |-> NewInvalidRequestError("empty request data"), req |-> NoLine]
    ELSE IF ~l.json THEN [error |-> NewParseError, req |-> NoLine]
    ELSE IF l.ver # "2.0"
      THEN [error |-> NewInvalidRequestError("invalid jsonrpc version"), req |-> NoLine]
    ELSE IF l.method = <<>>
      THEN [error |-> NewInvalidRequestError("method is required"), req |-> NoLine]
    ELSE [error |-> NoError, req |-> [l EXCEPT !.id = DecodeId(l.id)]]

\* parseMethod: the index of the first '.', -1 without one
DotIndex(m) ==
    IF \E i \in 1..Len(m) : m[i] = "."
    THEN (CHOOSE i \in 1..Len(m) : m[i] = "." /\ \A j \in 1..(i - 1) : m[j] # ".") - 1
    ELSE -1

\* parseMethod: ok, serviceName, methodName
parseMethod(m) ==
    LET dotIndex == DotIndex(m) IN
    IF dotIndex = -1 \/ dotIndex = 0 \/ dotIndex = Len(m) - 1
    THEN <<FALSE, <<>>, <<>>>>
    ELSE <<TRUE, SubSeq(m, 1, dotIndex), SubSeq(m, dotIndex + 2, Len(m))>>

\* ServiceRegistry.call: the arguments are unmarshalled when there are any,
\* the method is invoked, its error or its panic becomes an Internal error
Registry_call(params, does) ==
    IF params # "none" /\ params = "bad"
    THEN [error |-> NewInvalidParamsError, result |-> "none", invoked |-> 0]
    ELSE IF does = "panic"
      THEN [error |-> NewInternalError("panic"), result |-> "none", invoked |-> 1]
    ELSE IF does = "error"
      THEN [error |-> NewInternalError("error message"), result |-> "none",
            invoked |-> 1]
    ELSE [error |-> NoError, result |-> "reply", invoked |-> 1]

\* (mutant) the arguments are parsed before the method is looked up
Registry_callFirst(s, m, params, does) ==
    IF params = "bad"
    THEN [error |-> NewInvalidParamsError, result |-> "none", invoked |-> 0]
    ELSE IF s \notin Services \/ m \notin MethodsOf(s)
      THEN [error |-> NewMethodNotFoundError("name"), result |-> "none", invoked |-> 0]
    ELSE Registry_call(params, does)

\* ServiceRegistry.Call: the service and the method are looked up
Registry_Call(s, m, params, does) ==
    IF s \notin Services
    THEN [error |-> NewMethodNotFoundError("service"), result |-> "none",
          invoked |-> 0]
    ELSE IF m \notin MethodsOf(s)
      THEN [error |-> NewMethodNotFoundError("service.method"), result |-> "none",
            invoked |-> 0]
    ELSE Registry_call(params, does)

\* Server.encodeErrorResponse and Server.encodeSuccessResponse
encodeErrorResponse(i, e) == [id |-> i, result |-> "none", error |-> e]
encodeSuccessResponse(i, r) == [id |-> i, result |-> r, error |-> NoError]

\* Server.processRequest: the response, and how often the handler ran
processRequest(l) ==
    LET d == DecodeRequest(l)
        req == d.req
        p == parseMethod(req.method)
        o == Registry_Call(p[2], p[3], req.params, req.does)
    IN  IF d.error # NoError
        THEN [resp |-> encodeErrorResponse(IdNull, d.error), invoked |-> 0]
        ELSE IF ~p[1]
          THEN [resp |-> encodeErrorResponse(req.id,
                                             NewMethodNotFoundError("method")),
                invoked |-> 0]
        ELSE IF o.error # NoError
          THEN [resp |-> encodeErrorResponse(req.id, o.error),
                invoked |-> o.invoked]
        ELSE [resp |-> encodeSuccessResponse(req.id, o.result),
              invoked |-> o.invoked]

\* JSONCodec.EncodeResponse of a response of the server: the line
EncodeResponse(r) ==
    [empty |-> FALSE, json |-> TRUE, ver |-> "2.0",
     result |-> IF r.result = "none" THEN "absent" ELSE "value",
     error |-> IF r.error = NoError THEN "absent" ELSE "object",
     id |-> r.id]

\* json.Unmarshal into Response: Result (a json.RawMessage) is nil only when
\* the member is absent, Error (a pointer) is nil when it is absent or null
ResultIsNil(l) == l.result = "absent"
ErrorIsNil(l) == l.error \in {"absent", "null"}

\* JSONCodec.DecodeResponse: the error ("" for success) and which of Result
\* and Error the returned Response has
JSONCodec_DecodeResponse(l) ==
    IF l.empty
    THEN [error |-> "InvalidRequest", result |-> FALSE, rpcError |-> FALSE]
    ELSE IF ~l.json THEN [error |-> "Parse", result |-> FALSE, rpcError |-> FALSE]
    ELSE IF l.ver # "2.0"
      THEN [error |-> "InvalidRequest", result |-> FALSE, rpcError |-> FALSE]
    ELSE IF ResultIsNil(l) /\ ErrorIsNil(l)
      THEN [error |-> "InvalidRequest", result |-> FALSE, rpcError |-> FALSE]
    ELSE [error |-> "", result |-> ~ResultIsNil(l), rpcError |-> ~ErrorIsNil(l)]

\* the request lines sent after the first one
FollowUps == {l \in RequestLines :
                l.json => (l.ver = "2.0" /\ l.method = <<"A", ".", "G">>
                             /\ l.params = "good" /\ l.does = "reply"
                             /\ l.id = <<"num", 0, 1>>)}

InitProtoIdle ==
    /\ hQueue = <<>>
    /\ hLine = <<>>
    /\ hOut = <<>>
    /\ hCalls = <<>>
    /\ hLoop = FALSE
    /\ gIn = NoGIn
    /\ gOut = NoOutcome
    /\ rLine = NoRLine
    /\ rDec = NoDec

\* a connection whose client sends one or two lines, or a response line
\* that reaches a client, or a direct call of the registry
InitProto ==
    /\ hLine = <<>>
    /\ hOut = <<>>
    /\ hCalls = <<>>
    /\ gOut = NoOutcome
    /\ rDec = NoDec
    /\ \/ /\ hLoop = TRUE
          /\ \E l \in RequestLines :
                hQueue \in {<<l>>} \cup {<<l, f>> : f \in FollowUps}
          /\ gIn = NoGIn /\ rLine = NoRLine
       \/ /\ hLoop = FALSE /\ hQueue = <<>> /\ gIn = NoGIn
          /\ rLine \in ResponseLines
       \/ /\ hLoop = FALSE /\ hQueue = <<>> /\ rLine = NoRLine
          /\ gIn \in {s \in Strings : Len(s) <= 1} \X {s \in Strings : Len(s) <= 1}
                       \X {"none", "good", "bad"} \X Behaviours

\* Server.handleConn, one round: ReadBytes returns the next line,
\* processRequest makes the response, the response is written and flushed
H_round ==
    /\ hLoop
    /\ hQueue # <<>>
    /\ LET l == Head(hQueue)
           o == processRequest(l)
       IN  /\ hLine' = Append(hLine, l)
           /\ hOut' = Append(hOut, o.resp)
           /\ hCalls' = Append(hCalls, o.invoked)
    /\ hQueue' = Tail(hQueue)
    /\ UNCHANGED <<hLoop, gIn, gOut, rLine, rDec>>
    /\ UNCHANGED notProto

\* Server.handleConn: ReadBytes returns io.EOF, the loop ends
H_eof ==
    /\ hLoop
    /\ hQueue = <<>>
    /\ hLoop' = FALSE
    /\ UNCHANGED <<hQueue, hLine, hOut, hCalls, gIn, gOut, rLine, rDec>>
    /\ UNCHANGED notProto

\* the client decodes the response the server wrote
R_decodeWritten ==
    /\ hOut # <<>>
    /\ rLine = NoRLine
    /\ rLine' = EncodeResponse(hOut[Len(hOut)])
    /\ rDec' = JSONCodec_DecodeResponse(EncodeResponse(hOut[Len(hOut)]))
    /\ UNCHANGED <<hQueue, hLine, hOut, hCalls, hLoop, gIn, gOut>>
    /\ UNCHANGED notProto

\* a client decodes the line it has read
R_decode ==
    /\ rLine # NoRLine
    /\ rDec = NoDec
    /\ hOut = <<>>
    /\ rDec' = JSONCodec_DecodeResponse(rLine)
    /\ UNCHANGED <<hQueue, hLine, hOut, hCalls, hLoop, gIn, gOut, rLine>>
    /\ UNCHANGED notProto

\* ServiceRegistry.Call is called
G_call ==
    /\ gIn # NoGIn
    /\ gOut = NoOutcome
    /\ gOut' = Registry_Call(gIn[1], gIn[2], gIn[3], gIn[4])
    /\ UNCHANGED <<hQueue, hLine, hOut, hCalls, hLoop, gIn, rLine, rDec>>
    /\ UNCHANGED notProto

NextProto ==
    \/ H_round
    \/ H_eof
    \/ R_decodeWritten
    \/ R_decode
    \/ G_call

(***************************************************************************)
(* Client.Batch (part_007: 473-512) with several calls.  Batch starts one  *)
(* goroutine per call; each runs Client.Call and, when it failed, writes   *)
(* the error into its Call record and sends it on errChan; Batch waits for *)
(* the WaitGroup and returns the first error of errChan.  What a Call      *)
(* returns is an input, except that a Call that finds the client closed    *)
(* returns ErrClientClosed (part_007: 150-152).                            *)
(***************************************************************************)

\* the positions of the calls list
BatchCalls == 1..MaxBatch

\* what Client.Call can return to a goroutine of Batch at this moment
CallOutcomes ==
    IF isClosed THEN {ErrClientClosed}
    ELSE {Nil, CtxDeadlineExceeded, RpcError}

NotRun == <<"not run">>
NoBatchRet == <<"none">>

InitBatch ==
    /\ bpc = "idle"
    /\ bN = 0
    /\ bgo = [i \in BatchCalls |-> "none"]
    /\ bOut = [i \in BatchCalls |-> NotRun]
    /\ bErr = [i \in BatchCalls |-> Nil]
    /\ errChan = <<>>
    /\ wg = 0
    /\ bRet = NoBatchRet

\* (mutant) a Wait that returns at once
WaitReturnsAtOnce == TRUE

\* wg.Wait() returns
WaitReturns == wg = 0

\* Batch is invoked with n calls: the length check, the load of c.closed,
\* then wg.Add(1) and a goroutine for every call
B_enter(n) ==
    /\ bpc = "idle"
    /\ bN' = n
    /\ IF n = 0
       THEN /\ bpc' = "returned"
            /\ bRet' = Nil
            /\ UNCHANGED <<bgo, wg>>
       ELSE IF isClosed
         THEN /\ bpc' = "returned"
              /\ bRet' = ErrClientClosed
              /\ UNCHANGED <<bgo, wg>>
       ELSE /\ bpc' = "wait"
            /\ bgo' = [i \in BatchCalls |-> IF i <= n THEN "started" ELSE "none"]
            /\ wg' = n
            /\ bRet' = bRet
    /\ UNCHANGED <<bOut, bErr, errChan>>
    /\ UNCHANGED notBatch

\* the goroutine of call i: err := c.Call(ctx, ...)
B_call(i) ==
    /\ bgo[i] = "started"
    /\ \E e \in CallOutcomes : bOut' = [bOut EXCEPT ![i] = e]
    /\ bgo' = [bgo EXCEPT ![i] = "called"]
    /\ UNCHANGED <<bpc, bN, bErr, errChan, wg, bRet>>
    /\ UNCHANGED notBatch

\* the goroutine of call i: call.Error = err and errChan <- err when err is
\* not nil, then the deferred wg.Done()
B_record(i) ==
    /\ bgo[i] = "called"
    /\ IF bOut[i] # Nil
       THEN /\ bErr' = [bErr EXCEPT ![i] = bOut[i]]
            /\ errChan' = Append(errChan, bOut[i])
       ELSE UNCHANGED <<bErr, errChan>>
    /\ wg' = wg - 1
    /\ bgo' = [bgo EXCEPT ![i] = "done"]
    /\ UNCHANGED <<bpc, bN, bOut, bRet>>
    /\ UNCHANGED notBatch

\* wg.Wait() returns, errChan is closed and Batch returns its first error,
\* or nil when it holds none
B_return ==
    /\ bpc = "wait"
    /\ WaitReturns
    /\ bRet' = IF errChan = <<>> THEN Nil ELSE Head(errChan)
    /\ bpc' = "returned"
    /\ UNCHANGED <<bN, bgo, bOut, bErr, errChan, wg>>
    /\ UNCHANGED notBatch

NextBatch ==
    \/ \E n \in 0..MaxBatch : B_enter(n)
    \/ \E i \in BatchCalls :
        \/ B_call(i)
        \/ B_record(i)
    \/ B_return
    \/ \E z \in XClosers : X_cas(z)

(***************************************************************************)
(* ServiceRegistry.Register, RegisterName (registry.go: 46-168).  A        *)
(* service is taken by what reflection reads of it: the name of its type   *)
(* and its method set, a method by the parts of its signature that         *)
(* validateMethod examines.  Registrars register concurrently; register    *)
(* holds r.mu from its first statement to its return.                      *)
(***************************************************************************)

Registrars == 1..NumRegistrars

\* names: none, exported, not exported
RegNames == {<<>>, <<"S">>, <<"s">>}
UpperChars == {"S", "A", "B"}

\* a method of the signature func(ctx context.Context, args *T, reply *R) error
GoodMethod(n) ==
    [name |-> n, numIn |-> 4, ctx |-> TRUE, argPtr |-> TRUE, replyPtr |-> TRUE,
     numOut |-> 1, outErr |-> TRUE]

\* methods that differ from it in one part each
BadMethods ==
    {GoodMethod(<<"a">>),
     [GoodMethod(<<"B">>) EXCEPT !.numIn = 3],
     [GoodMethod(<<"B">>) EXCEPT !.ctx = FALSE],
     [GoodMethod(<<"B">>) EXCEPT !.argPtr = FALSE],
     [GoodMethod(<<"B">>) EXCEPT !.replyPtr = FALSE],
     [GoodMethod(<<"B">>) EXCEPT !.numOut = 2],
     [GoodMethod(<<"B">>) EXCEPT !.outErr = FALSE]}

\* the services handed to Register: the name of the type and its method
\* set, with no, one or two eligible methods, alone or beside another
RegServices ==
    [tname : RegNames,
     methods : {{}, {GoodMethod(<<"A">>)}, {GoodMethod(<<"A">>), GoodMethod(<<"B">>)},
                {GoodMethod(<<"A">>), GoodMethod(<<"a">>)}}]
        \cup {[tname |-> <<"S">>, methods |-> {b}] : b \in BadMethods}

\* isExported: the first rune is an upper-case letter
isExported(name) == Len(name) > 0 /\ name[1] \in UpperChars

\* validateMethod: nil, or the first check that fails
validateMethod(m) ==
    IF ~isExported(m.name) THEN "not exported"
    ELSE IF m.numIn # 4 THEN "wrong number of ins"
    ELSE IF ~m.ctx THEN "first argument is not context.Context"
    ELSE IF ~m.argPtr THEN "args type not a pointer"
    ELSE IF ~m.replyPtr THEN "reply type not a pointer"
    ELSE IF m.numOut # 1 THEN "wrong number of outs"
    ELSE IF ~m.outErr THEN "returns not error"
    ELSE "nil"

\* the loop of register over the methods of the type: s.methods
EligibleMethods(svc) == {m.name : m \in {x \in svc.methods : validateMethod(x) = "nil"}}

NoRegIn == [useName |-> FALSE, name |-> <<>>, svc |-> [tname |-> <<>>, methods |-> {}]]

\* NewServiceRegistry: no service
InitReg ==
    /\ services = <<>>
    /\ regMu = 0
    /\ regpc = [g \in Registrars |-> "idle"]
    /\ regIn = [g \in Registrars |-> NoRegIn]
    /\ regSname = [g \in Registrars |-> <<>>]
    /\ regCalls = [g \in Registrars |-> 0]
    /\ regLog = {}

\* Register(service) and RegisterName(name, service) call register
Reg_call(g, useName, name, svc) ==
    /\ regpc[g] = "idle"
    /\ regCalls[g] < MaxRegs
    /\ ~useName => name = <<>>
    /\ regCalls' = [regCalls EXCEPT ![g] = @ + 1]
    /\ regIn' = [regIn EXCEPT ![g] = [useName |-> useName, name |-> name, svc |-> svc]]
    /\ regpc' = [regpc EXCEPT ![g] = "lock"]
    /\ Running
    /\ UNCHANGED <<services, regMu, regSname, regLog>>
    /\ UNCHANGED notReg

\* (mutant) register without the mutual exclusion of r.mu
Reg_lockShared(g) ==
    /\ regpc[g] = "lock"
    /\ regMu' = g
    /\ regpc' = [regpc EXCEPT ![g] = "name"]
    /\ Running
    /\ UNCHANGED <<services, regIn, regSname, regCalls, regLog>>
    /\ UNCHANGED notReg

\* register: r.mu.Lock()
Reg_lock(g) ==
    /\ regpc[g] = "lock"
    /\ regMu = 0
    /\ regMu' = g
    /\ regpc' = [regpc EXCEPT ![g] = "name"]
    /\ Running
    /\ UNCHANGED <<services, regIn, regSname, regCalls, regLog>>
    /\ UNCHANGED notReg

\* register returns err: the deferred r.mu.Unlock() runs
Reg_return(g, sname, err) ==
    /\ regMu' = 0
    /\ regpc' = [regpc EXCEPT ![g] = "idle"]
    /\ regSname' = [regSname EXCEPT ![g] = <<>>]
    /\ regLog' = regLog \cup {[g |-> g, k |-> regCalls[g], sname |-> sname,
                               useName |-> regIn[g].useName,
                               eligible |-> EligibleMethods(regIn[g].svc) # {},
                               err |-> err]}
    /\ ret' = <<g, err>>

\* register: the service name, and the three checks of it
Reg_name(g) ==
    /\ regpc[g] = "name"
    /\ LET sname == IF regIn[g].useName THEN regIn[g].name ELSE regIn[g].svc.tname
       IN IF sname = <<>>
            THEN Reg_return(g, sname, "register_no_service_name")
          ELSE IF ~regIn[g].useName /\ ~isExported(sname)
            THEN Reg_return(g, sname, "register_not_exported")
          ELSE IF sname \in DOMAIN services
            THEN Reg_return(g, sname, "register_already_registered")
          ELSE /\ regSname' = [regSname EXCEPT ![g] = sname]
               /\ regpc' = [regpc EXCEPT ![g] = "methods"]
               /\ Running
               /\ UNCHANGED <<regMu, regLog>>
    /\ UNCHANGED <<services, regIn, regCalls>>
    /\ UNCHANGED notReg

\* register: the eligible methods of the type are collected; with none the
\* registration fails, else r.services[sname] = s
Reg_methods(g) ==
    /\ regpc[g] = "methods"
    /\ LET ms == EligibleMethods(regIn[g].svc)
       IN IF ms = {}
            THEN /\ Reg_return(g, regSname[g], "register_no_methods")
                 /\ UNCHANGED services
            ELSE /\ Reg_return(g, regSname[g], "register_nil")
                 /\ services' = [n \in DOMAIN services \cup {regSname[g]} |->
                                    IF n = regSname[g] THEN ms ELSE services[n]]
    /\ UNCHANGED <<regIn, regCalls>>
    /\ UNCHANGED notReg

NextReg ==
    \E g \in Registrars :
        \/ \E useName \in BOOLEAN, name \in RegNames, svc \in RegServices :
              Reg_call(g, useName, name, svc)
        \/ Reg_lock(g)
        \/ Reg_name(g)
        \/ Reg_methods(g)

(***************************************************************************)
(* Specifications                                                          *)
(***************************************************************************)

\* the components a specification does not exercise stay as constructed; a
\* pool that is not exercised has one configuration
InitPoolFixed == InitPool /\ maxActive = 0 /\ testOnGet

\* every Client's pool has a positive MaxActive (NewClient's default is 100)
InitPoolOfClient == InitPool /\ maxActive = 1 /\ testOnGet
\* outside SpecCall nothing invokes the operations of the Client
InitCallFixed == InitCall

InitPoolSpec ==
    InitPool /\ InitGP /\ InitServer /\ InitClient /\ InitCallFixed /\ InitWire /\ InitProtoIdle /\ InitBatch /\ InitReg
InitGPSpec ==
    InitPoolFixed /\ InitGP /\ InitServer /\ InitClient /\ InitCallFixed /\ InitWire /\ InitProtoIdle /\ InitBatch /\ InitReg
InitServerSpec ==
    InitPoolFixed /\ InitGP /\ InitServer /\ InitClient /\ InitCallFixed /\ InitWire /\ InitProtoIdle /\ InitBatch /\ InitReg
InitClientSpec ==
    InitPoolFixed /\ InitGP /\ InitServer /\ InitClient /\ InitCallFixed /\ InitWire /\ InitProtoIdle /\ InitBatch /\ InitReg
InitCallSpec ==
    InitPoolOfClient /\ InitGP /\ InitServer /\ InitClient /\ InitCall /\ InitWire /\ InitProtoIdle /\ InitBatch /\ InitReg

NextPool ==
    \E p \in Procs :
        \/ Get_checkClosed(p)
        \/ Get_selectIdle(p)
        \/ Get_testConn(p)
        \/ Get_checkMax(p)
        \/ Get_dialFail(p)
        \/ Get_dialOk(p)
        \/ Put_checkClosed(p)
        \/ Put_select(p)
        \/ Close_lock(p)
        \/ Close_closeChan(p)
        \/ Close_drain(p)
        \/ Clean_start(p)
        \/ Clean_loop(p)
        \/ Clean_testConn(p)
        \/ Clean_putBack(p)

SpecPool == InitPoolSpec /\ [][NextPool]_vars

SpecGP == InitGPSpec /\ [][NextGP]_vars

\* the workers are goroutines that the scheduler runs, and a task that has
\* begun comes to its end
FairGP ==
    \A w \in Workers : WF_vars(Worker_recv(w) \/ Task_body(w) \/ Worker_next(w))

SpecGPFair == InitGPSpec /\ [][NextGP]_vars /\ FairGP

SpecServer == InitServerSpec /\ [][NextServer]_vars

\* the server that is never shut down: Serve, the workers with their
\* handlers, and the clients
NextServing ==
    \/ Serve_listen
    \/ Serve_check
    \/ \E c \in SConns : Serve_accept(c)
    \/ Serve_acceptErr
    \/ Serve_errCheck
    \/ Serve_add
    \/ Serve_afterSubmit
    \/ \E s \in Submitters :
        \/ Submit_check(s)
        \/ Submit_select(s)
    \/ \E w \in Workers :
        \/ Worker_recv(w)
        \/ H_check(w)
        \/ H_read(w)
        \/ H_readFail(w)
        \/ H_process(w)
        \/ H_write(w)
        \/ H_exit(w)
        \/ Worker_next(w)
    \/ \E c \in SConns :
        \/ ClientDial(c)
        \/ ClientSend(c)

\* the goroutine of Serve and the workers take their steps; a read on a
\* connection without a request ends (at the read deadline that handleConn
\* sets, or by EOF); Accept does not fail for ever while a connection waits
\* in the backlog.  Nothing is assumed about the clients.
FairServing ==
    /\ WF_vars(Serve_check \/ Serve_errCheck \/ Serve_add \/ Serve_afterSubmit
                  \/ \E s \in Submitters : Submit_check(s) \/ Submit_select(s))
    /\ SF_vars(\E c \in SConns : Serve_accept(c))
    /\ \A w \in Workers :
          WF_vars(Worker_recv(w) \/ H_check(w) \/ H_read(w) \/ H_readFail(w)
                     \/ H_process(w) \/ H_write(w) \/ H_exit(w) \/ Worker_next(w))

SpecServing == InitServerSpec /\ [][NextServing]_vars
SpecServingFair == SpecServing /\ FairServing

SpecClient == InitClientSpec /\ [][NextClient]_vars

SpecCall == InitCallSpec /\ [][NextCall]_vars

\* a goroutine that can take a step of Call takes one: the scheduler runs
\* every runnable goroutine, Get and the write end (dial timeout, small
\* request), and a select with a ready case is left.  Nothing is assumed
\* about the server: a response (Do_selectResp) may never come.
FairCall == \A u \in Callers : WF_vars(CallStep(u))

SpecCallFair == InitCallSpec /\ [][NextCall]_vars /\ FairCall

\* the goroutines of the calls take their steps, and the timer of the ctx
\* that Go gives its Call fires
FairGo == FairCall /\ \A u \in Callers : WF_vars(Go_deadline(u))

SpecGo == InitCallSpec /\ [][NextGo]_vars
SpecGoFair == InitCallSpec /\ [][NextGo]_vars /\ FairGo

InitE2ESpec ==
    InitPoolFixed /\ InitGP /\ InitServer /\ InitClient /\ InitCallFixed /\ InitWire /\ InitProtoIdle /\ InitBatch /\ InitReg

SpecE2E == InitE2ESpec /\ [][NextE2E]_vars

InitProtoSpec ==
    InitPoolFixed /\ InitGP /\ InitServer /\ InitClient /\ InitCallFixed /\ InitWire
        /\ InitProto /\ InitBatch /\ InitReg

SpecProto == InitProtoSpec /\ [][NextProto]_vars

InitBatchSpec ==
    InitPoolFixed /\ InitGP /\ InitServer /\ InitClient /\ InitCallFixed /\ InitWire
        /\ InitProtoIdle /\ InitBatch /\ InitReg

SpecBatch == InitBatchSpec /\ [][NextBatch]_vars

SpecReg == InitBatchSpec /\ [][NextReg]_vars

(***************************************************************************)
(* Properties of the ConnPool                                              *)
(***************************************************************************)

\* no operation of the pool is in progress (and none has panicked)
Quiescent == \A p \in Procs : pc[p] \in {"idle", "leased"}

\* the connections leased to callers: returned by Get, not yet given to Put
Leased == {held[p] : p \in {u \in Users : pc[u] = "leased"}} \ {NilConn}
NumLeased == Cardinality({u \in Users : pc[u] = "leased" /\ held[u] # NilConn})

\* C3: with a finite maxActive > 0 the active count never exceeds maxActive,
\* under every interleaving of Get, Put, Close and CleanIdleConns.
C3_ActiveWithinMax == maxActive > 0 => activeNum <= maxActive

\* C4 (as claimed): the active count equals the number of connections leased
\* to callers and not yet returned; stated for the states in which no pool
\* operation is in progress, where "returned" has no doubt.
C4_ActiveEqualsLeased == Quiescent => activeNum = NumLeased

\* C4 (amended): whenever no pool operation is in progress, the active count
\* equals the number of leased connections plus the number of connections in
\* the idle queue.
C4_ActiveEqualsLeasedPlusIdle ==
    Quiescent => activeNum = NumLeased + Len(idleConns)

\* C4 witness: connections are leased and idle at the same time
C4_Witness ==
    /\ Quiescent
    /\ NumLeased >= 1
    /\ Len(idleConns) >= 1
    /\ activeNum = NumLeased + Len(idleConns)

\* C5: the active count never goes negative.
C5_ActiveNonNegative == activeNum >= 0

\* C5 witness: a Put after Close destroyed the last connection and the count
\* is back at zero
C5_Witness ==
    /\ closed = 1
    /\ \E u \in Users : ret = <<u, "put_ErrPoolClosed">>
    /\ activeNum = 0

(***************************************************************************)
(* Properties of the GoroutinePool                                         *)
(***************************************************************************)

\* the last step was the return of a Close call
CloseReturned == ret[2] \in {"close_already", "close_joined"}

\* C7: Close returns only after every task whose Submit returned success
\* has finished: when a Close call returns, no accepted task is still
\* queued or running.
C7_CloseAfterTasks ==
    CloseReturned => (taskQueue = <<>> /\ \A w \in Workers : wpc[w] # "run")

\* C8: a Submit that starts once Close has set the closed flag fails with
\* ErrPoolClosed (it is at its first check, or it has returned the error),
\* and a task whose Submit failed so is never enqueued or executed.
C8_SubmitAfterClose ==
    /\ \A s \in Submitters : sAfter[s] => spc[s] \in {"check", "done_err"}
    /\ rejected \cap (QueuedTasks \cup RunningTasks \cup executed) = {}

\* C8 witness: a Submit that began on the closed pool has just returned
\* ErrPoolClosed while earlier tasks were accepted and executed
C8_Witness ==
    \E s \in Submitters :
        /\ sAfter[s]
        /\ ret = <<s, "submit_ErrPoolClosed">>
        /\ stask[s] \in rejected
        /\ executed # {}

(***************************************************************************)
(* Properties of the Server                                                *)
(***************************************************************************)

\* the counter of s.wg is the number of handlers in flight
WgCountsInFlight == swg = Cardinality(InFlight)

\* stopper k is in Shutdown, after the compare-and-swap that set the flag
InShutdown(k) ==
    kpc[k] \in {"sd_listener", "sd_select", "sd_close_done", "sd_close_timeout"}

C10_TimeoutDoesNotWait ==
    \A k \in Stoppers :
        ~ /\ kpc[k] = "sd_close_timeout"
          /\ cpc[k] = "wait"
          /\ \E w \in Workers : wpc[w] = "run" /\ tpc[w] \in {"read", "proc", "write"}

\* some invocation of Shutdown or Close, other than stopper k's, has returned:
\* the server has been shut down
ShutDownBefore(k) == \E j \in Stoppers \ {k} : kpc[j] = "returned"

\* C11: Shutdown and Close are idempotent: an invocation on a server that
\* an earlier invocation has shut down completes as the first one does,
\* without an error; in particular no Shutdown invoked after an earlier
\* Shutdown or Close has returned comes back with the error "server is
\* already shutdown".
C11_RepeatedStopNoError ==
    \A k \in Stoppers : ret = <<k, "shutdown_already">> => ~ShutDownBefore(k)

(***************************************************************************)
(* Properties of the Client                                                *)
(***************************************************************************)

\* caller u has just leased connection c and has written nothing on it yet,
\* or is waiting for the response on it
InCall(u, c) == pc[u] = "leased" /\ held[u] = c /\ cphase[u] \in {"none", "wait"}

\* C1: a connection in the idle set is read by nobody, and a connection
\* leased to a caller is read neither by another caller's call nor by the
\* goroutine of an earlier, abandoned call.
C1_ExclusiveLoan ==
    \A c \in Conns :
        /\ c \in IdleSet => (orphans[c] = 0 /\ \A u \in Users : bg[u] # c)
        /\ \A u \in Users :
              InCall(u, c) => (orphans[c] = 0 /\ \A v \in Users \ {u} : bg[v] # c)

\* C2: no request is written on a connection while an earlier request on
\* it still has its response unread: at most one response is outstanding
\* on a connection.
C2_StrictlySerial == \A c \in Conns : unread[c] <= 1

\* C6: a connection on which a call attempt hit a write or read error is
\* not in the idle set and is not leased to a later call.
C6_FailedConnDestroyed ==
    \A c \in Conns :
        bad[c] => /\ c \notin IdleSet
                  /\ \A u \in Users : ~(InCall(u, c) /\ cphase[u] = "none")

(***************************************************************************)
(* Properties of the Client's Call, Go, Batch, Ping and Close              *)
(***************************************************************************)

\* caller u is inside doCall: between the registration of its record and
\* the deferred delete
InDoCall(u) == apc[u] \in {"get", "wait", "unreg"}

\* a Call of caller u is in progress
CallInProgress(u) == apc[u] \in {"enter", "loop", "get", "wait", "unreg", "backoff"}

\* C12: the sequence numbers of one Client are unique and strictly
\* monotonic: no record carries a number above the counter, and every
\* number that doCall assigns, for a first attempt or a retry of Call, Go
\* or Batch, is above the counter before the assignment, hence above every
\* number assigned earlier, and differs from the number of every other call.
C12_SeqUniqueMonotonic ==
    /\ [](\A u \in Callers : aseq[u] <= seq)
    /\ [][\A u \in Callers :
            aseq'[u] \notin {aseq[u], 0} =>
                /\ aseq'[u] > seq
                /\ seq' = aseq'[u]
                /\ \A v \in Callers \ {u} : aseq'[v] # aseq'[u]]_vars

\* both callers hold a sequence number, each of them for a retry
C12_Witness ==
    /\ aseq[1] > 0 /\ aseq[2] > 0
    /\ tries[1] >= 2 /\ tries[2] >= 2
    /\ kind[1] = "Batch" /\ kind[2] = "Go"

\* C13: a record is in the pending map only while its doCall runs, so it is
\* gone when Call returns, whatever the outcome, and the pending count of
\* Stats is 0 whenever no call is in progress.
C13_PendingOnlyDuringDoCall ==
    /\ \A p \in pending : InDoCall(p[2]) /\ aseq[p[2]] = p[1]
    /\ (\A u \in Callers : ~CallInProgress(u)) => Cardinality(pending) = 0

\* a Call has just returned with its retries exhausted
C13_Witness ==
    /\ cret = <<1, Errorf_w("call failed after retries", WriteError)>>
    /\ Cardinality(pending) = 0

\* C15: a Call on an open client whose ctx is done when it is invoked
\* returns ctx.Err() from the first check of its loop; it has assigned no
\* sequence number, registered nothing, leased no connection and written no
\* request, and the pending map holds no record of it.  (On a closed client
\* or with invalid arguments Call returns before the loop, having done none
\* of these either.)
C15_ElapsedDeadline ==
    [][\A u \in Callers :
          (preDone[u] /\ cret' # NoCRet /\ cret'[1] = u) =>
              /\ apc[u] = "loop" => cret'[2] = CtxErr(ctxSt[u])
              /\ apc[u] \in {"enter", "loop"}
              /\ did[u] = {}
              /\ seq' = seq
              /\ u \notin Registered'
              /\ (\A v \in Callers \ {u} : ~InDoCall(v)) => pending' = {}]_vars

\* a Call invoked after its deadline has returned DeadlineExceeded
C15_Witness == cret = <<1, CtxDeadlineExceeded>> /\ seq = 0 /\ pending = {}

\* the failure of caller u's attempt is one the retry policy calls transient:
\* a failed lease other than an exhausted pool, a failed write or read, or
\* the server closing the connection before the response was read
TransientFailure(u) ==
    IF gotErr[u] # Nil THEN gotErr[u] # ErrPoolExhausted
    ELSE aerr[u] \in {WriteError, ReadError, EofError}

\* C17: a failed attempt is treated as retryable exactly when it failed with
\* a network or I/O error, with EOF or with NoConnection, and not when the
\* ctx was cancelled or timed out, the client was closed or the lease
\* failed with PoolExhausted.
C17_RetryClassification ==
    \A u \in Callers :
        (apc[u] = "unreg" /\ aerr[u] # Nil) =>
            (shouldRetry(aerr[u]) <=> TransientFailure(u))

\* C18: a Call makes at most maxRetries + 1 attempts; it waits only after
\* a failed attempt that is not the last one, and the wait before retry k
\* (after attempt k, counting from 0) is retryDelay * 2^k; once ctx is done
\* during such a wait no further attempt is made and the Call returns
\* ctx.Err().
C18_RetryBackoff ==
    /\ [](\A u \in Callers :
            /\ tries[u] <= maxRetries + 1
            /\ apc[u] = "backoff" =>
                  /\ attempt[u] < maxRetries
                  /\ tries[u] = attempt[u] + 1
                  /\ delay[u] = retryDelay * (2 ^ attempt[u]))
    /\ [][\A u \in Callers :
            (apc[u] \in {"backoff", "loop"} /\ CtxIsDone(ctxSt[u])) =>
                /\ tries'[u] <= tries[u]
                /\ apc'[u] \in {"backoff", "loop", "idle"}
                /\ apc'[u] = "idle" => cret' = <<u, CtxErr(ctxSt[u])>>]_vars

\* a Call waits before its second retry and its ctx is cancelled meanwhile
C18_Witness ==
    \E u \in Callers :
        /\ apc[u] = "backoff" /\ attempt[u] = 1 /\ delay[u] = 2 * retryDelay
        /\ CtxIsDone(ctxSt[u])

\* caller u's step returns from an operation at its first check
ReturnsAtEntry(u) == apc[u] = "idle" /\ cret' # NoCRet /\ cret'[1] = u

\* caller u's step leaves the client's bookkeeping as it is: no sequence
\* number assigned, nothing registered, nothing leased
NothingDone(u) == seq' = seq /\ pending' = pending /\ did'[u] = {}

\* C20 (as amended): after Client.Close has returned, every Call, every
\* Ping and every Batch of at least one call fails with ClientClosed at its
\* first check, without assigning a sequence number, registering a pending
\* call or leasing a connection; a Batch of no calls returns nil, with none
\* of these effects either; and a further Close returns nil and changes
\* nothing.
C20_AfterCloseAmended ==
    [][/\ \A u \in Callers :
            /\ (ClientCloseReturned /\ ReturnsAtEntry(u)) =>
                  /\ NothingDone(u)
                  /\ IF kind'[u] = "EmptyBatch" THEN cret'[2] = Nil
                     ELSE cret'[2] = ErrClientClosed
            /\ (ClientCloseReturned /\ apc[u] = "idle" /\ apc'[u] # "idle") =>
                  apc'[u] = "enter" /\ kind'[u] \in {"Call", "Go"}
            /\ (late[u] /\ apc[u] = "enter" /\ apc'[u] # "enter") =>
                  /\ NothingDone(u)
                  /\ kind[u] = "Call" => cret' = <<u, ErrClientClosed>>
                  /\ kind[u] = "Go" => apc'[u] = "finish" /\ aerr'[u] = ErrClientClosed
       /\ \A z \in XClosers :
            xpc[z] = "returned" =>
                  /\ UNCHANGED <<cClosed, closed, xpc>>
                  /\ cret'[1] = z =>
                        cret' = <<z, Nil>> /\ UNCHANGED <<pending, callErr, callDone>>]_vars

\* C20 (as claimed): after Client.Close has returned, every Call, Batch or
\* Ping fails with ClientClosed at its first check.
C20_AllFailAfterClose ==
    [][\A u \in Callers :
          /\ (ClientCloseReturned /\ ReturnsAtEntry(u)) => cret'[2] = ErrClientClosed
          /\ (late[u] /\ apc[u] = "enter" /\ apc'[u] = "idle") =>
                cret' = <<u, ErrClientClosed>>]_vars

\* a Ping invoked after Close has returned has failed with ClientClosed
C20_Witness ==
    /\ ClientCloseReturned
    /\ cret = <<2, ErrClientClosed>>
    /\ kind[2] = "Ping"

\* the error and the completion channel of the Call record the issuer of
\* caller u's call holds: for Go and Batch the record the issuer got or
\* passed in, for Call the record Call itself created
IssuerErr(u) == IF kind[u] \in {"Go", "Batch"} THEN heldErr[u] ELSE callErr[u]
IssuerDone(u) == IF kind[u] \in {"Go", "Batch"} THEN heldDone[u] ELSE callDone[u]

\* C19: when Client.Close returns, every call that was pending when it ran
\* has ClientClosed as its error on the record its issuer holds and that
\* record's completion channel signalled; and once Close has returned the
\* pending map is empty.
C19_CloseStampsPending ==
    /\ [](ClientCloseReturned => pending = {})
    /\ [][\A z \in XClosers :
            (xpc[z] = "sweep" /\ xpc'[z] = "returned") =>
                \A u \in Registered :
                    IssuerErr(u)' = ErrClientClosed /\ IssuerDone(u)' = 1]_vars

\* the ctx of caller u's Call is done while the Call is in progress
CancelledInProgress(u) == kind[u] = "Call" /\ CtxIsDone(ctxSt[u]) /\ CallInProgress(u)

C14_EndToEnd ==
    \A n \in CallIds :
        eRet = <<n, "ok">> =>
            /\ eSink[n] = Handler(eArgs[n])
            /\ eHandled[n] = 1

(***************************************************************************)
(* Further properties of the GoroutinePool                                 *)
(***************************************************************************)

\* C30: every invocation of Close joins all workers before it returns: when
\* a Close call returns, the first one or a further one, every worker has
\* left its loop, so none is executing a task.
C30_EveryCloseJoins ==
    CloseReturned => \A w \in Workers : wpc[w] = "exited"

(***************************************************************************)
(* Further properties of the ConnPool                                      *)
(***************************************************************************)

\* caller p takes a step of Get that leaves position at
LeavesGet(p, at) == pc[p] = at /\ pc'[p] # at

\* C24: the outcome of Get, case by case.  On a closed pool it returns
\* ErrPoolClosed.  Otherwise, with an idle connection in the queue it takes
\* that connection without dialing and without changing the active count
\* (and returns it, unless the health check of the spec's fast path
\* destroys it and Get starts again); with an empty queue it returns
\* ErrPoolExhausted without dialing when maxActive > 0 and the active count
\* has reached it, and else dials: the count grows by exactly one when the
\* dial succeeds and is unchanged when it fails.  Get has no other outcome.
C24_GetOutcome ==
    [][\A p \in Users :
        /\ (pc[p] \in {"idle", "get_retry"} /\ pc'[p] = "get_select") => closed = 0
        /\ (pc[p] \in {"idle", "get_retry"} /\ closed = 1 /\ ret'[1] = p) =>
              /\ ret' = <<p, "ErrPoolClosed">>
              /\ activeNum' = activeNum /\ connSt' = connSt
        /\ LeavesGet(p, "get_select") =>
              IF Len(idleConns) > 0
                THEN /\ activeNum' = activeNum /\ connSt' = connSt
                     /\ IF testOnGet
                          THEN pc'[p] = "get_test" /\ cur'[p] = Head(idleConns)
                          ELSE ret' = <<p, "ok">> /\ held'[p] = Head(idleConns)
                ELSE pc'[p] = "get_checkMax" /\ activeNum' = activeNum
        /\ LeavesGet(p, "get_test") =>
              \/ /\ ret' = <<p, "ok">> /\ held'[p] = cur[p] /\ cur[p] # NilConn
                 /\ activeNum' = activeNum /\ connSt' = connSt
              \/ /\ pc'[p] = "get_retry" /\ cur[p] # NilConn
                 /\ activeNum' = activeNum - 1
        /\ LeavesGet(p, "get_checkMax") =>
              /\ activeNum' = activeNum /\ connSt' = connSt
              /\ IF maxActive > 0 /\ activeNum >= maxActive
                   THEN ret' = <<p, "ErrPoolExhausted">>
                   ELSE pc'[p] = "get_dial"
        /\ LeavesGet(p, "get_dial") =>
              \/ /\ ret' = <<p, "ok">> /\ activeNum' = activeNum + 1
                 /\ held'[p] # NilConn /\ connSt[held'[p]] = "closed"
              \/ /\ ret' = <<p, "DialError">>
                 /\ activeNum' = activeNum /\ connSt' = connSt]_vars

\* C25: Put does not block and has three outcomes.  On a closed pool the
\* connection is destroyed and the active count drops by one.  On an open
\* pool the connection goes into the idle queue when there is room (count
\* unchanged), and else it is destroyed and the count drops by one.  The
\* idle queue never holds more than maxIdle connections.
C25_PutOutcome ==
    /\ [](Len(idleConns) <= maxIdle)
    /\ [][\A p \in Users :
            /\ (LeavesGet(p, "leased") /\ held[p] # NilConn) =>
                  IF closed = 1
                    THEN /\ ret' = <<p, "put_ErrPoolClosed">>
                         /\ connSt'[held[p]] = "closed"
                         /\ activeNum' = activeNum - 1
                         /\ idleConns' = idleConns
                    ELSE /\ pc'[p] = "put_select"
                         /\ activeNum' = activeNum /\ connSt' = connSt
            /\ LeavesGet(p, "put_select") =>
                  IF Len(idleConns) < maxIdle
                    THEN /\ ret' = <<p, "put_idle">>
                         /\ idleConns' = Append(idleConns, cur[p])
                         /\ activeNum' = activeNum /\ connSt' = connSt
                    ELSE /\ ret' = <<p, "put_full">>
                         /\ connSt'[cur[p]] = "closed"
                         /\ activeNum' = activeNum - 1
                         /\ idleConns' = idleConns]_vars

\* Close has returned, no operation of the pool is in progress and no
\* caller holds a connection
ClosedAndAllReturned ==
    closed = 1 /\ pc[Closer] = "idle" /\ Quiescent /\ Leased = {}

AllDestroyed ==
    /\ \A c \in Conns : connSt[c] = "closed"
    /\ idleConns = <<>>
    /\ activeNum = 0

\* a repeated Close changes nothing
RepeatedCloseNoOp ==
    [][(closed = 1 /\ pc[Closer] = "idle" /\ ret' # NoRet /\ ret'[1] = Closer) =>
          /\ ret' = <<Closer, "close_noop">>
          /\ UNCHANGED <<idleConns, idleClosed, activeNum, closed, connSt, mu>>]_vars

\* C26 (as amended): once Close has returned, every Get that overlapped it
\* has returned too, and every leased connection has been given to Put, no
\* connection of the pool is open, the idle queue is empty and the active
\* count is 0; a repeated Close changes nothing.
C26_CloseAmended ==
    /\ [](ClosedAndAllReturned => AllDestroyed)
    /\ RepeatedCloseNoOp

\* C26 (as claimed): once Close has returned and the connections leased at
\* that time have been returned, no connection of the pool is open any more:
\* from a state after Close in which every connection is destroyed, none is
\* opened again.
C26_CloseDestroysAll ==
    /\ [](ClosedAndAllReturned => AllDestroyed)
    /\ [][(closed = 1 /\ pc[Closer] = "idle" /\ Leased = {} /\ AllDestroyed) =>
              \A c \in Conns : connSt'[c] = "closed"]_vars
    /\ RepeatedCloseNoOp

\* C26 witness: the last connection that was leased when Close ran has just
\* been destroyed by Put, and nothing is open
C26_Witness ==
    /\ ClosedAndAllReturned
    /\ \E u \in Users : ret = <<u, "put_ErrPoolClosed">>
    /\ AllDestroyed

(***************************************************************************)
(* Properties of the messages                                              *)
(***************************************************************************)

\* the line carries a result member and an error object, or neither a
\* result member nor an error object
CarriesBoth(l) == l.result # "absent" /\ l.error = "object"
CarriesNeither(l) == l.result = "absent" /\ l.error # "object"

\* C27: a response that DecodeResponse returns without an error has exactly
\* one of its Result and Error fields populated, and a line that carries
\* both a result and an error, or neither of them, is rejected.
C27_ExactlyOneOfResultAndError ==
    rDec # NoDec =>
        /\ (rDec.error = "" => (rDec.result # rDec.rpcError))
        /\ (rLine.json /\ (CarriesBoth(rLine) \/ CarriesNeither(rLine))
               => rDec.error # "")

\* the class of an outcome of ServiceRegistry.Call
ErrorClass(o) == o.error[1]
KnownService(g) == g[1] \in Services
KnownMethod(g) == KnownService(g) /\ g[2] \in MethodsOf(g[1])

\* C28: ServiceRegistry.Call classifies in a fixed order: an unknown
\* service gives MethodNotFound, a known service with an unknown method
\* gives MethodNotFound, parameters that do not parse give InvalidParams, a
\* handler that returns an error gives Internal with the error's message, a
\* handler that panics gives Internal, otherwise the reply is returned; the
\* handler runs at most once, and only after the lookup and the parsing of
\* the parameters succeeded.
C28_DispatchOrder ==
    /\ gOut # NoOutcome =>
         /\ gOut.invoked \in {0, 1}
         /\ gOut.invoked = 1 <=> (KnownMethod(gIn) /\ gIn[3] # "bad")
         /\ gOut.result = "reply" <=> gOut.error = NoError
         /\ IF ~KnownService(gIn) THEN ErrorClass(gOut) = "MethodNotFound"
            ELSE IF ~KnownMethod(gIn) THEN ErrorClass(gOut) = "MethodNotFound"
            ELSE IF gIn[3] = "bad" THEN ErrorClass(gOut) = "InvalidParams"
            ELSE IF gIn[4] = "error"
              THEN gOut.error = NewInternalError("error message")
            ELSE IF gIn[4] = "panic" THEN ErrorClass(gOut) = "Internal"
            ELSE gOut.error = NoError /\ gOut.result = "reply"
    /\ \A i \in 1..Len(hCalls) : hCalls[i] \in {0, 1}

\* a dispatch to an unknown service with parameters that do not parse has
\* been classified
C28_Witness ==
    /\ gOut # NoOutcome
    /\ ~KnownService(gIn)
    /\ gIn[3] = "bad"
    /\ ErrorClass(gOut) = "MethodNotFound"

\* the response the claim gives the i-th line read on the connection, with
\* identifiers compared after the conversion same
ResponseAsStated(i, same(_)) ==
    LET l == hLine[i]
        r == hOut[i]
        d == DecodeRequest(l)
        p == parseMethod(l.method)
        o == Registry_Call(p[2], p[3], l.params, l.does)
    IN  IF d.error # NoError
        THEN r.error # NoError /\ r.result = "none" /\ r.id = IdNull
        ELSE /\ r.id = same(l.id)
             /\ IF ~p[1] \/ p[2] \notin Services \/ p[3] \notin MethodsOf(p[2])
                THEN r.error[1] = "MethodNotFound" /\ r.result = "none"
                ELSE IF o.error # NoError
                  THEN r.error = o.error /\ r.result = "none"
                ELSE r.error = NoError /\ r.result = o.result

SameId(i) == i

\* C29: every line the server has read on a connection has exactly one
\* response: an error with a null identifier when the line cannot be
\* decoded, otherwise a response with the identifier of the request, which
\* is MethodNotFound for a method name without a valid split or an unknown
\* service or method, the dispatch error when dispatch fails and the result
\* otherwise; the loop goes on while there are lines to read.
C29_OneResponsePerLine ==
    /\ Len(hOut) = Len(hLine)
    /\ \A i \in 1..Len(hLine) : ResponseAsStated(i, SameId)
    /\ hQueue # <<>> => hLoop

\* the same with identifiers compared as the float64 they are decoded to
C29_UpToFloat64 ==
    /\ Len(hOut) = Len(hLine)
    /\ \A i \in 1..Len(hLine) : ResponseAsStated(i, DecodeId)
    /\ hQueue # <<>> => hLoop

(***************************************************************************)
(* Properties of Client.Batch                                              *)
(***************************************************************************)

BatchReturned == bpc = "returned"

\* every call of the batch has completed, Batch returned nil exactly when
\* all of them succeeded, and otherwise the first error sent on errChan,
\* which is the error of one of its calls
AllCallsAwaited ==
    /\ \A i \in 1..bN : bgo[i] = "done"
    /\ bRet = Nil <=> \A i \in 1..bN : bOut[i] = Nil
    /\ bRet # Nil =>
         /\ errChan # <<>>
         /\ bRet = errChan[1]
         /\ \E i \in 1..bN : bOut[i] = bRet /\ bOut[i] # Nil

\* no call of a non-empty batch was started and Batch returned
\* ErrClientClosed on a closed client
RefusedAtEntry ==
    /\ bN > 0
    /\ isClosed
    /\ bRet = ErrClientClosed
    /\ \A i \in BatchCalls : bgo[i] = "none" /\ bOut[i] = NotRun
    /\ errChan = <<>>

C22_ErrorsRecorded ==
    (BatchReturned /\ bRet # Nil) =>
        \A i \in 1..bN :
            /\ bOut[i] = Nil => bErr[i] = Nil
            /\ bOut[i] # Nil => bErr[i] # Nil

\* the same for the calls that ran
C22_RecordedWhenRun ==
    BatchReturned =>
        \A i \in 1..bN :
            /\ bOut[i] = Nil => bErr[i] = Nil
            /\ bOut[i] \notin {Nil, NotRun} => bErr[i] = bOut[i]

(***************************************************************************)
(* Properties of Client.Go and Client.GoWithContext                        *)
(***************************************************************************)

\* Go or GoWithContext has returned caller u's record and the record has
\* not been sent on its Done channel yet
GoPending(u) ==
    kind[u] \in {"Go", "GoWithContext"} /\ apc[u] \notin {"idle", "issued"}

\* the record was sent once, and only after Call's error was written to it
SentOnceWhenSet(u) ==
    /\ heldDone[u] \in {0, 1}
    /\ GoPending(u) => heldDone[u] = 0
    /\ heldDone[u] = 1 =>
         /\ apc[u] = "issued"
         /\ aerr[u] # Nil => heldErr[u] = aerr[u]
         /\ aerr[u] = Nil => heldErr[u] = Nil

\* C23: the record of every call issued with Go or GoWithContext is
\* eventually sent on its Done channel, exactly once and after its Error or
\* its reply has been set, also when the call fails, times out or the
\* client is closed in the meantime.
C23_RecordEventuallySent ==
    /\ [](\A u \in Callers : SentOnceWhenSet(u))
    /\ \A u \in Callers : GoPending(u) ~> heldDone[u] = 1

\* the same holds for every call issued with Go, whose ctx ends after
\* 30 s, and for every call issued with GoWithContext whose ctx has ended
C23_SentWhenCallEnds ==
    /\ [](\A u \in Callers : SentOnceWhenSet(u))
    /\ \A u \in Callers :
         (GoPending(u) /\ (kind[u] = "Go" \/ CtxIsDone(ctxSt[u])))
             ~> heldDone[u] = 1

\* a call issued with Go leased a connection, timed out, and its record
\* was sent with the deadline error
C23_Witness ==
    \E u \in Callers :
        /\ kind[u] = "Go"
        /\ heldDone[u] = 1
        /\ heldErr[u] = CtxDeadlineExceeded
        /\ "lease" \in did[u]

(***************************************************************************)
(* Further properties of the GoroutinePool: panics, bounds, Submit         *)
(***************************************************************************)

\* every worker is in its loop unless the task queue has been closed
AllWorkersAlive == \A w \in Workers : wpc[w] = "exited" => queueClosed

\* C31: a task that panics does not end its worker: while the queue is not
\* closed all the workers stay in their loops, whatever number of tasks has
\* panicked, and every task that is in the queue is executed (unless a
\* Submit that panicked on the closed queue has ended the program).
C31_PanicKeepsWorker ==
    /\ []AllWorkersAlive
    /\ \A t \in 1..MaxTasks :
         (t \in QueuedTasks) ~> (t \in executed \/ GPCrashed)

\* on an open pool a task has been executed that was submitted after
\* another one had panicked
C31_Witness ==
    /\ gpClosed = 0
    /\ panicked # {}
    /\ \E t \in executed : \A p \in panicked : t > p
    /\ \A w \in Workers : wpc[w] # "exited"

\* the workers that execute a task
BusyWorkers == {w \in Workers : wpc[w] = "run"}

\* a submitter inside the part of Submit that follows the first check
SubmitPending(s) == spc[s] \in {"select", "recheck", "send"}

\* C32: the worker pool bounds the work: at most NumWorkers tasks execute at
\* a time and at most QueueCap accepted tasks wait in the queue; while the
\* pool is open a Submit that finds the queue full stays in Submit, and it
\* is accepted only with a free place; a Submit that selects on a queue
\* with a free place returns nil in that step, its task queued and not yet
\* executed
C32_BoundedPool ==
    /\ [](/\ Cardinality(BusyWorkers) <= NumWorkers
          /\ Cardinality(RunningTasks) <= NumWorkers
          /\ Len(taskQueue) <= QueueCap)
    /\ [][\A s \in Submitters :
            /\ (/\ SubmitPending(s)
                /\ Len(taskQueue) = QueueCap
                /\ gpClosed = 0
                /\ ~queueClosed) => SubmitPending(s)'
            /\ (SubmitPending(s) /\ spc'[s] = "done_ok")
                 => /\ Len(taskQueue) < QueueCap
                    /\ taskQueue' = Append(taskQueue, stask[s])
            /\ (/\ spc[s] = "select"
                /\ spc'[s] # "select"
                /\ ~queueClosed
                /\ Len(taskQueue) < QueueCap)
                 => /\ spc'[s] = "done_ok"
                    /\ stask[s] \notin executed']_vars

\* a Submit waits in its blocking send: the queue is full and the worker is
\* busy, the pool is open
C32_Witness ==
    /\ \E s \in Submitters : spc[s] = "send"
    /\ Len(taskQueue) = QueueCap
    /\ Cardinality(BusyWorkers) = NumWorkers
    /\ gpClosed = 0

\* Serve has installed its listener and has not returned: the server serves
Serving == vpc \notin {"init", "returned"}

\* C33 (as claimed): an accept failure while the server is not shutting down
\* leaves Serve in its loop, and once Shutdown or Close has been invoked on
\* a serving server Serve is on its way to its return whatever the loop was
\* doing: it is never ended by a panic inside the Submit of an accepted
\* connection, after which it cannot return.
C33_ServeReturnsAfterStop ==
    /\ [](Serving /\ sShutdown = 1 => spc[1] # "panic")
    /\ [][vpc = "accept_err" /\ sShutdown = 0 /\ vpc' # vpc => vpc' = "check"]_vars

(***************************************************************************)
(* Properties of the ServiceRegistry                                       *)
(***************************************************************************)

\* the name register uses for the call of registrar g
SnameOf(g) == IF regIn[g].useName THEN regIn[g].name ELSE regIn[g].svc.tname

\* one of the four causes of failure holds for the call of registrar g
RegisterMustFail(g) ==
    \/ SnameOf(g) = <<>>
    \/ ~regIn[g].useName /\ ~isExported(SnameOf(g))
    \/ SnameOf(g) \in DOMAIN services
    \/ EligibleMethods(regIn[g].svc) = {}

\* a returned call whose name passed its checks and whose type has an
\* eligible method: it fails only if the name is taken
SoundCall(e) ==
    /\ e.sname # <<>>
    /\ e.useName \/ isExported(e.sname)
    /\ e.eligible

\* C34: a call of register returns an error exactly when the name is empty,
\* or no explicit name was given and the type's name is not exported, or
\* the name is already registered, or the type has no eligible method, and
\* then the registry is as before; else it returns nil and the registry
\* has gained the service with its eligible methods.  Of the calls under
\* one name that could succeed exactly one does.  A registered service
\* stays, with the same methods.
C34_RegisterFailsCleanly ==
    /\ [][\A g \in Registrars :
            (ret'[1] = g /\ regpc[g] \in {"name", "methods"} /\ regpc'[g] = "idle") =>
               IF RegisterMustFail(g)
                 THEN ret'[2] # "register_nil" /\ services' = services
                 ELSE /\ ret'[2] = "register_nil"
                      /\ DOMAIN services' = DOMAIN services \cup {SnameOf(g)}
                      /\ services'[SnameOf(g)] = EligibleMethods(regIn[g].svc)]_vars
    /\ [](\A n \in RegNames :
            LET won == {e \in regLog : e.sname = n /\ e.err = "register_nil"}
            IN /\ Cardinality(won) <= 1
               /\ (\E e \in regLog : e.sname = n /\ SoundCall(e)) => Cardinality(won) = 1
               /\ won # {} <=> n \in DOMAIN services)
    /\ [][\A n \in DOMAIN services :
            n \in DOMAIN services' /\ services'[n] = services[n]]_vars

\* C34 witness: two goroutines have registered services with eligible
\* methods under one name; one call returned nil, the other the error
C34_Witness ==
    \E e1, e2 \in regLog :
        /\ e1.g # e2.g
        /\ e1.sname = e2.sname
        /\ SoundCall(e1) /\ SoundCall(e2)
        /\ e1.err = "register_nil"
        /\ e2.err = "register_already_registered"
        /\ \E g \in Registrars : ret = <<g, "register_already_registered">>

\* C35 (as claimed): no interleaving of Submit and Close makes Submit send
\* on the closed task queue, neither in its select nor in the blocking send
\* of a Submit that waits on a full queue; a Submit that races with Close
\* has returned ErrPoolClosed or its task is executed when the Close that
\* joins the workers returns.
C35_NoSendOnClosedQueue ==
    /\ \A s \in Submitters : spc[s] # "panic"
    /\ ret[2] = "close_joined" =>
          \A s \in Submitters :
              spc[s] = "done_ok" => stask[s] \in executed /\ stask[s] \notin RunningTasks

\* the connections the pool has dialed and not destroyed
OpenConns == {c \in Conns : connSt[c] = "open"}

\* C37: connection accounting is conserved: whenever no operation of the
\* pool is in progress, the active count is the number of connections
\* dialed and not yet destroyed, and these are exactly the connections in
\* the idle queue and the leased ones, each counted once.
C37_AccountingConserved ==
    Quiescent =>
        /\ activeNum = Cardinality(OpenConns)
        /\ OpenConns = IdleSet \cup Leased
        /\ IdleSet \cap Leased = {}
        /\ Cardinality(IdleSet) = Len(idleConns)
        /\ Cardinality(Leased) = NumLeased

\* C37 witness: Close has just returned; it found the queue closed to new
\* idle connections while a caller still holds a lease, and the count is one
C37_Witness ==
    /\ Quiescent
    /\ closed = 1
    /\ ret = <<Closer, "close_done">>
    /\ NumLeased = 1
    /\ activeNum = 1

\* C36 (as claimed): no interleaving of Close with Put, Get or
\* CleanIdleConns reaches a bad state: no goroutine has panicked, by a send
\* on the closed idle queue (Put, CleanIdleConns) or by the health check of
\* the nil connection received from the closed idle queue (Get,
\* CleanIdleConns), and no Get has returned a nil connection with a nil
\* error.
C36_CloseRaceSafe ==
    /\ \A p \in Procs : pc[p] # "panic"
    /\ \A u \in Users : ret # <<u, "ok_nil">>
    /\ \A u \in Users : pc[u] = "leased" => held[u] # NilConn

\* call n has been issued and has returned to its caller
CallReturned(n) == n <= eSeq /\ \A u \in WireCallers : eId[u] # n

\* C38 (as claimed): once a Call has returned to its caller, the goroutine
\* of receiveResponse that belongs to it does not write the caller's reply
\* sink any more.
C38_NoWriteAfterReturn ==
    [][\A n \in CallIds : CallReturned(n) => eSink'[n] = eSink[n]]_vars

\* C39 (as claimed): whatever the order of Serve and Close or Shutdown, once
\* Serve has returned and Close or Shutdown has been called and no such
\* call is still in progress, the listener that Serve created is not open.
C39_NoListenerLeftOpen ==
    (/\ vpc = "returned"
     /\ \E k \in Stoppers : kpc[k] = "returned"
     /\ \A k \in Stoppers : kpc[k] \in {"idle", "returned"}) => lsn # "open"

\* connection c has been accepted and its client has written a request that
\* the server has not read
RequestWaits(c) == cst[c] = "accepted" /\ creq[c] = "sent"

\* C40 (as claimed): every request that a client writes on a connection
\* accepted by the running server is eventually read and answered, also
\* with more connections open than the pool has workers.
C40_EveryRequestAnswered ==
    \A c \in SConns : RequestWaits(c) ~> (creq[c] = "answered")

\* C40 (as claimed), the connections in the queue of the worker pool: the
\* request of a connection that waits there is eventually answered.
C40_QueuedRequestAnswered ==
    \A c \in SConns :
        (c \in QueuedTasks /\ creq[c] = "sent") ~> (creq[c] = "answered")

\* what holds for them: the request is answered, or the clients of the
\* other connections write requests again and again; handleConn leaves a
\* connection, and its worker, only when a read fails
C40_QueuedAnsweredWhenOthersIdle ==
    \A c \in SConns :
        []((c \in QueuedTasks /\ creq[c] = "sent") =>
              \/ <>(creq[c] = "answered")
              \/ []<>(\E d \in SConns \ {c} : creq[d] = "sent"))

====
